---- MODULE Spec2Model ----
(***************************************************************************)
(* Verification model of the Sauce Demo Playwright suite: the retry        *)
(* helper (TestHelpers), the page objects (InventoryPage, CartPage,        *)
(* CheckoutOverviewPage, CheckoutCompletePage) and the complete checkout   *)
(* scenario.  Strings are sequences of character codes so that             *)
(* toLowerCase, trim, includes, parseInt and parseFloat are computed.      *)
(***************************************************************************)
EXTENDS Integers, Sequences, FiniteSets, TLC

VARIABLES
    \* TestHelpers.retryWithBackoff
    maxRetries,     \* parameter maxRetries
    baseDelay,      \* parameter baseDelay (ms)
    attempt,        \* loop variable attempt
    lastError,      \* local lastError ("unset" until the first catch)
    rpc,            \* position: "off" | "loop" | "wait" | "done"
    calls,          \* outcomes of the invocations of fn so far, in order
    delays,         \* the setTimeout delays awaited so far, in order
    outcome         \* how the call completed: kind "none" | "returned" | "thrown"

VARIABLES
    \* InventoryPage.addItemsToCart on the listing screen
    items,          \* parameter items
    itemIdx,        \* position of the for..of loop (1-based), next element to take
    clicks,         \* clicks issued on add-to-cart controls, in order
    cart,           \* the page: controls whose item is in the cart
    ipc,            \* position: "off" | "loop" | "done"
    iOutcome        \* how addItemsToCart completed

VARIABLES
    \* InventoryPage.getCartItemCount
    cartBadge,      \* the page: the .shopping_cart_badge element and its text
    bpc,            \* position: "off" | "call" | "done"
    bOutcome        \* how getCartItemCount completed

VARIABLES
    \* CartPage.verifyCartItems
    expectedItems,  \* parameter expectedItems
    cartItemNames,  \* the page: texts of the .inventory_item_name elements
    vpc,            \* position: "off" | "call" | "done"
    vOutcome        \* how verifyCartItems completed

VARIABLES
    \* CheckoutOverviewPage.verifyTotalCalculation
    itemPrices,      \* the page: texts of the .inventory_item_price elements
    totalLabel,      \* the page: text of the .summary_total_label element
    calculatedTotal, \* local calculatedTotal
    tpc,             \* position: "off" | "calc" | "compare" | "done"
    tOutcome         \* how verifyTotalCalculation completed

VARIABLES
    \* Flow 5 of the complete checkout scenario, on the completion screen
    url,            \* the page: page.url()
    elements,       \* the completion screen: "visible" | "hidden" | "absent", per locator
    completeHeader, \* the page: text of the .complete-header element
    completeText,   \* the page: text of the .complete-text element
    spc,            \* position in the scenario, "off" when not run
    results,        \* the values the calls of Flow 5 resolved with
    backHomeClicked,\* whether the back-home control has been clicked
    sOutcome        \* how the scenario ended: kind "none" | "passed" | "failed"

VARIABLES
    \* waitForPageLoad of a page object
    loadPage,       \* the page object whose waitForPageLoad is called
    networkIdle,    \* the page: whether the load state 'networkidle' is reached
    required,       \* the page: state of the elements waitForPageLoad looks at
    lpc,            \* position: "off" | "call" | "done"
    lOutcome        \* how waitForPageLoad completed

VARIABLES
    \* the queries of an optional element (error banner, cart badge)
    query,          \* the query that is called
    queried,        \* the page: state and text of the element the query looks at
    qpc,            \* position: "off" | "call" | "done"
    qOutcome        \* how the query completed

VARIABLES
    \* the browser page of one scenario, as the page objects drive it
    sessUrl,        \* page.url()
    loginForm,      \* the username and password inputs of the start screen
    typed,          \* the scenario: the username and password it last passed in
    submitted,      \* the scenario: what it had passed in when it clicked login
    errorBanner,    \* text of the [data-test="error"] element, <<>> when not shown
    infoForm,       \* the three inputs of the checkout information screen
    infoTyped,      \* the scenario: the three values it last passed in
    infoSubmitted,  \* the scenario: what it had filled in when it clicked continue
    trail           \* the screens the page has shown, in order

VARIABLES
    \* the scenarios of one suite under the test runner
    pending,        \* the scenarios that have not started
    running,        \* per worker: the scenario it runs, 0 when it runs none
    phase,          \* per worker: "idle" | "beforeEach" | "body"
    binding,        \* per worker: the describe-level variables, each holding the
                    \* page its page object was created on (0: unassigned)
    loggedIn,       \* the pages on which beforeEach has logged in
    opsDone,        \* per worker: page-object operations of the running scenario
    acted           \* every page-object operation made: the scenario, and the page acted on

VARIABLES
    \* CartPage.removeItemFromCart on the cart screen
    cartRows,       \* the target: the name texts of the rows the cart shows
    rmItems,        \* const items: the rows found by cartItems.all()
    itemName,       \* the name passed in
    rmIdx,          \* for (const item of items): the row examined next
    removeClicks,   \* the rows of items whose remove control was clicked
    rmpc            \* position: "off" | "loop" | "done"

VARIABLES
    \* LoginPage.login and CheckoutPage.completeCheckoutInformation, step by step
    composite,      \* the method that is called
    controls,       \* the page: per input and button, "visible" | "absent"
    cIdx,           \* the statement of the method that runs next
    issued,         \* the fills and clicks issued so far, each with how it ended
    cpc,            \* position: "off" | "run" | "done"
    cOutcome        \* how the method completed

VARIABLES
    \* a query of the error banner made after the submitting click has returned
    banner,         \* the page: state and text of the [data-test="error"] element
    renderAt,       \* the target: when it shows the banner, in ms after the click returned
    callAt,         \* the scenario: when it calls the query, in ms after the click returned
    clock,          \* ms since the click returned
    bannerQuery,    \* the query that is called
    epc,            \* position: "off" | "idle" | "called" | "done"
    eOutcome        \* how the query completed

retryVars == <<maxRetries, baseDelay, attempt, lastError, rpc, calls, delays, outcome>>

inventoryVars == <<items, itemIdx, clicks, cart, ipc, iOutcome>>

badgeVars == <<cartBadge, bpc, bOutcome>>

verifyVars == <<expectedItems, cartItemNames, vpc, vOutcome>>

totalVars == <<itemPrices, totalLabel, calculatedTotal, tpc, tOutcome>>

scenarioVars ==
    <<url, elements, completeHeader, completeText, spc, results, backHomeClicked, sOutcome>>

loadVars == <<loadPage, networkIdle, required, lpc, lOutcome>>

queryVars == <<query, queried, qpc, qOutcome>>

sessionVars ==
    <<sessUrl, loginForm, typed, submitted, errorBanner, infoForm, infoTyped,
      infoSubmitted, trail>>

runnerVars == <<pending, running, phase, binding, loggedIn, opsDone, acted>>

removeVars == <<cartRows, rmItems, itemName, rmIdx, removeClicks, rmpc>>

compositeVars == <<composite, controls, cIdx, issued, cpc, cOutcome>>

bannerVars == <<banner, renderAt, callAt, clock, bannerQuery, epc, eOutcome>>

vars ==
    <<retryVars,
      inventoryVars,
      badgeVars,
      verifyVars,
      totalVars,
      scenarioVars,
      loadVars,
      queryVars,
      sessionVars,
      runnerVars,
      removeVars,
      compositeVars,
      bannerVars>>

\* what an operation of one component leaves alone

notRetry ==
    <<inventoryVars,
      badgeVars,
      verifyVars,
      totalVars,
      scenarioVars,
      loadVars,
      queryVars,
      sessionVars,
      runnerVars,
      removeVars,
      compositeVars,
      bannerVars>>

notInventory ==
    <<retryVars,
      badgeVars,
      verifyVars,
      totalVars,
      scenarioVars,
      loadVars,
      queryVars,
      sessionVars,
      runnerVars,
      removeVars,
      compositeVars,
      bannerVars>>

notBadge ==
    <<retryVars,
      inventoryVars,
      verifyVars,
      totalVars,
      scenarioVars,
      loadVars,
      queryVars,
      sessionVars,
      runnerVars,
      removeVars,
      compositeVars,
      bannerVars>>

notVerify ==
    <<retryVars,
      inventoryVars,
      badgeVars,
      totalVars,
      scenarioVars,
      loadVars,
      queryVars,
      sessionVars,
      runnerVars,
      removeVars,
      compositeVars,
      bannerVars>>

notTotal ==
    <<retryVars,
      inventoryVars,
      badgeVars,
      verifyVars,
      scenarioVars,
      loadVars,
      queryVars,
      sessionVars,
      runnerVars,
      removeVars,
      compositeVars,
      bannerVars>>

notScenario ==
    <<retryVars,
      inventoryVars,
      badgeVars,
      verifyVars,
      totalVars,
      loadVars,
      queryVars,
      sessionVars,
      runnerVars,
      removeVars,
      compositeVars,
      bannerVars>>

notLoad ==
    <<retryVars,
      inventoryVars,
      badgeVars,
      verifyVars,
      totalVars,
      scenarioVars,
      queryVars,
      sessionVars,
      runnerVars,
      removeVars,
      compositeVars,
      bannerVars>>

notQuery ==
    <<retryVars,
      inventoryVars,
      badgeVars,
      verifyVars,
      totalVars,
      scenarioVars,
      loadVars,
      sessionVars,
      runnerVars,
      removeVars,
      compositeVars,
      bannerVars>>

notSession ==
    <<retryVars,
      inventoryVars,
      badgeVars,
      verifyVars,
      totalVars,
      scenarioVars,
      loadVars,
      queryVars,
      runnerVars,
      removeVars,
      compositeVars,
      bannerVars>>

notRunner ==
    <<retryVars,
      inventoryVars,
      badgeVars,
      verifyVars,
      totalVars,
      scenarioVars,
      loadVars,
      queryVars,
      sessionVars,
      removeVars,
      compositeVars,
      bannerVars>>

notRemove ==
    <<retryVars,
      inventoryVars,
      badgeVars,
      verifyVars,
      totalVars,
      scenarioVars,
      loadVars,
      queryVars,
      sessionVars,
      runnerVars,
      compositeVars,
      bannerVars>>

notComposite ==
    <<retryVars,
      inventoryVars,
      badgeVars,
      verifyVars,
      totalVars,
      scenarioVars,
      loadVars,
      queryVars,
      sessionVars,
      runnerVars,
      removeVars,
      bannerVars>>

notBanner ==
    <<retryVars,
      inventoryVars,
      badgeVars,
      verifyVars,
      totalVars,
      scenarioVars,
      loadVars,
      queryVars,
      sessionVars,
      runnerVars,
      removeVars,
      compositeVars>>

notInventoryBadgeSession ==
    <<retryVars,
      verifyVars,
      totalVars,
      scenarioVars,
      loadVars,
      queryVars,
      runnerVars,
      removeVars,
      compositeVars,
      bannerVars>>

notSessionVerify ==
    <<retryVars,
      inventoryVars,
      badgeVars,
      totalVars,
      scenarioVars,
      loadVars,
      queryVars,
      runnerVars,
      removeVars,
      compositeVars,
      bannerVars>>

notSessionScenario ==
    <<retryVars,
      inventoryVars,
      badgeVars,
      verifyVars,
      totalVars,
      loadVars,
      queryVars,
      runnerVars,
      removeVars,
      compositeVars,
      bannerVars>>

notSessionComposite ==
    <<retryVars,
      inventoryVars,
      badgeVars,
      verifyVars,
      totalVars,
      scenarioVars,
      loadVars,
      queryVars,
      runnerVars,
      removeVars,
      bannerVars>>

----------------------------------------------------------------------------
(* Bounds *)

MaxRetriesBound == 3

\* cap on the invocations of fn explored in one call
MaxCalls == MaxRetriesBound + 3

\* longest list handed to addItemsToCart
MaxItems == 3

\* longest text of the cart badge
MaxBadgeLen == 3

\* most rows of a cart, and most names of an expected list
MaxCartRows == 3

\* highest tax rate of the target explored, in percent of the item total
MaxTaxPercent == 10

\* workers of the test runner, scenarios of a suite, and page-object
\* operations explored per scenario
MaxWorkers == 2
MaxScenarios == 3
MaxOps == 2

----------------------------------------------------------------------------
(* Strings: sequences of character codes *)

\* a JavaScript number: an integer, or NaN
Num(n) == [nan |-> FALSE, n |-> n]
NaN == [nan |-> TRUE, n |-> 0]

\* String.prototype.toLowerCase on one ASCII character
ToLowerChar(c) == IF c \in 65 .. 90 THEN c + 32 ELSE c

\* String.prototype.toLowerCase
ToLowerCase(s) == [i \in 1 .. Len(s) |-> ToLowerChar(s[i])]

\* white space that parseInt and trim skip: space, tab, LF, VT, FF, CR, NBSP
IsWhiteSpace(c) == c \in {32, 9, 10, 11, 12, 13, 160}

\* the text without its leading white space
RECURSIVE TrimStart(_)
TrimStart(s) ==
    IF s # <<>> /\ IsWhiteSpace(Head(s)) THEN TrimStart(Tail(s)) ELSE s

\* the text without its trailing white space
RECURSIVE TrimEnd(_)
TrimEnd(s) ==
    IF s # <<>> /\ IsWhiteSpace(s[Len(s)])
       THEN TrimEnd(SubSeq(s, 1, Len(s) - 1))
       ELSE s

\* String.prototype.trim
Trim(s) == TrimEnd(TrimStart(s))

\* value of a character as a digit of the radix, -1 when it is none
DigitValue(c, radix) ==
    LET v == CASE c \in 48 .. 57  -> c - 48
               [] c \in 97 .. 122 -> c - 97 + 10
               [] c \in 65 .. 90  -> c - 65 + 10
               [] OTHER           -> -1
    IN  IF v < radix THEN v ELSE -1

\* the longest prefix of s made of digits of the radix
RECURSIVE DigitPrefix(_, _)
DigitPrefix(s, radix) ==
    IF s # <<>> /\ DigitValue(Head(s), radix) >= 0
       THEN <<Head(s)>> \o DigitPrefix(Tail(s), radix)
       ELSE <<>>

\* the number written by a sequence of digits
RECURSIVE DigitsValue(_, _)
DigitsValue(ds, radix) ==
    IF ds = <<>> THEN 0
    ELSE DigitsValue(SubSeq(ds, 1, Len(ds) - 1), radix) * radix
         + DigitValue(ds[Len(ds)], radix)

\* parseInt(text) without a radix: leading white space and a sign are skipped,
\* a 0x prefix selects radix 16, the digits up to the first other character
\* are read, and the result is NaN when there are none
ParseInt(text) ==
    LET t == TrimStart(text)
        neg == t # <<>> /\ Head(t) = 45
        u == IF t # <<>> /\ Head(t) \in {43, 45} THEN Tail(t) ELSE t
        hex == Len(u) >= 2 /\ u[1] = 48 /\ u[2] \in {120, 88}
        radix == IF hex THEN 16 ELSE 10
        ds == DigitPrefix(IF hex THEN SubSeq(u, 3, Len(u)) ELSE u, radix)
    IN  IF ds = <<>> THEN NaN
        ELSE Num((IF neg THEN -1 ELSE 1) * DigitsValue(ds, radix))

\* the text without the first occurrence of character c: s.replace(c, '')
RECURSIVE RemoveFirst(_, _)
RemoveFirst(s, c) ==
    IF s = <<>> THEN <<>>
    ELSE IF Head(s) = c THEN Tail(s)
    ELSE <<Head(s)>> \o RemoveFirst(Tail(s), c)

\* the characters of s that are a decimal digit or a dot:
\* s.replace(/[^0-9.]/g, '')
RECURSIVE KeepDigitsAndDots(_)
KeepDigitsAndDots(s) ==
    IF s = <<>> THEN <<>>
    ELSE IF Head(s) \in 48 .. 57 \/ Head(s) = 46
         THEN <<Head(s)>> \o KeepDigitsAndDots(Tail(s))
         ELSE KeepDigitsAndDots(Tail(s))

\* parseFloat(text), for amounts with at most two decimals, in hundredths:
\* leading white space and a sign are skipped, then digits, a dot and digits
\* are read up to the first other character; NaN when no digit was read
ParseFloat(text) ==
    LET t == TrimStart(text)
        neg == t # <<>> /\ Head(t) = 45
        u == IF t # <<>> /\ Head(t) \in {43, 45} THEN Tail(t) ELSE t
        ip == DigitPrefix(u, 10)
        rest == SubSeq(u, Len(ip) + 1, Len(u))
        fp == IF rest # <<>> /\ Head(rest) = 46 THEN DigitPrefix(Tail(rest), 10) ELSE <<>>
        f2 == SubSeq(fp \o <<48, 48>>, 1, 2)
    IN  IF ip = <<>> /\ fp = <<>> THEN NaN
        ELSE Num((IF neg THEN -1 ELSE 1)
                 * (DigitsValue(ip, 10) * 100 + DigitsValue(f2, 10)))

\* the decimal digits of a natural number
RECURSIVE Digits(_)
Digits(n) == IF n < 10 THEN <<48 + n>> ELSE Digits(n \div 10) \o <<48 + (n % 10)>>

\* an amount of hundredths written with two decimals, as in "60.45"
FormatAmount(cents) ==
    Digits(cents \div 100) \o <<46, 48 + ((cents % 100) \div 10), 48 + (cents % 10)>>

\* String.prototype.includes
Includes(s, sub) ==
    \E i \in 0 .. (Len(s) - Len(sub)) : SubSeq(s, i + 1, i + Len(sub)) = sub

\* all sequences over S of length at most n
RECURSIVE SeqsUpTo(_, _)
SeqsUpTo(S, n) ==
    IF n = 0 THEN {<<>>}
    ELSE LET shorter == SeqsUpTo(S, n - 1)
         IN  shorter \cup {Append(q, x) : q \in shorter, x \in S}

\* TestData.CHECKOUT_ITEMS[0]: "Sauce Labs Backpack"
SAUCE_LABS_BACKPACK ==
    <<83, 97, 117, 99, 101, 32, 76, 97, 98, 115, 32, 66, 97, 99, 107, 112,
    97, 99, 107>>

\* TestData.CHECKOUT_ITEMS[1]: "Sauce Labs Bike Light"
SAUCE_LABS_BIKE_LIGHT ==
    <<83, 97, 117, 99, 101, 32, 76, 97, 98, 115, 32, 66, 105, 107, 101, 32,
    76, 105, 103, 104, 116>>

\* TestData.CHECKOUT_ITEMS[2]: "Sauce Labs Bolt T-Shirt"
SAUCE_LABS_BOLT_T_SHIRT ==
    <<83, 97, 117, 99, 101, 32, 76, 97, 98, 115, 32, 66, 111, 108, 116, 32,
    84, 45, 83, 104, 105, 114, 116>>

\* case label: "sauce labs backpack"
caseBackpack ==
    <<115, 97, 117, 99, 101, 32, 108, 97, 98, 115, 32, 98, 97, 99, 107, 112,
    97, 99, 107>>

\* case label: "sauce labs bike light"
caseBikeLight ==
    <<115, 97, 117, 99, 101, 32, 108, 97, 98, 115, 32, 98, 105, 107, 101,
    32, 108, 105, 103, 104, 116>>

\* case label: "sauce labs bolt t-shirt"
caseBoltTShirt ==
    <<115, 97, 117, 99, 101, 32, 108, 97, 98, 115, 32, 98, 111, 108, 116,
    32, 116, 45, 115, 104, 105, 114, 116>>

\* an input spelled in capitals: "SAUCE LABS BACKPACK"
UpperBackpack ==
    <<83, 65, 85, 67, 69, 32, 76, 65, 66, 83, 32, 66, 65, 67, 75, 80, 65,
    67, 75>>

\* an input spelled in small letters: "sauce labs bike light"
LowerBikeLight ==
    <<115, 97, 117, 99, 101, 32, 108, 97, 98, 115, 32, 98, 105, 107, 101,
    32, 108, 105, 103, 104, 116>>

\* a catalog item addItemsToCart has no case for: "Sauce Labs Onesie"
SauceLabsOnesie ==
    <<83, 97, 117, 99, 101, 32, 76, 97, 98, 115, 32, 79, 110, 101, 115, 105,
    101>>

\* TestData.ERROR_MESSAGES
ERROR_MESSAGES ==
    [\* "Epic sadface: Sorry, this user has been locked out."
     LOCKED_OUT |->
         <<69, 112, 105, 99, 32, 115, 97, 100, 102, 97, 99, 101, 58, 32,
         83, 111, 114, 114, 121, 44, 32, 116, 104, 105, 115, 32, 117, 115,
         101, 114, 32, 104, 97, 115, 32, 98, 101, 101, 110, 32, 108, 111,
         99, 107, 101, 100, 32, 111, 117, 116, 46>>,
     \* "Epic sadface: Username and password do not match any user in this service"
     INVALID_CREDENTIALS |->
         <<69, 112, 105, 99, 32, 115, 97, 100, 102, 97, 99, 101, 58, 32,
         85, 115, 101, 114, 110, 97, 109, 101, 32, 97, 110, 100, 32, 112,
         97, 115, 115, 119, 111, 114, 100, 32, 100, 111, 32, 110, 111, 116,
         32, 109, 97, 116, 99, 104, 32, 97, 110, 121, 32, 117, 115, 101,
         114, 32, 105, 110, 32, 116, 104, 105, 115, 32, 115, 101, 114, 118,
         105, 99, 101>>,
     \* "Epic sadface: Username is required"
     REQUIRED_USERNAME |->
         <<69, 112, 105, 99, 32, 115, 97, 100, 102, 97, 99, 101, 58, 32,
         85, 115, 101, 114, 110, 97, 109, 101, 32, 105, 115, 32, 114, 101,
         113, 117, 105, 114, 101, 100>>,
     \* "Epic sadface: Password is required"
     REQUIRED_PASSWORD |->
         <<69, 112, 105, 99, 32, 115, 97, 100, 102, 97, 99, 101, 58, 32,
         80, 97, 115, 115, 119, 111, 114, 100, 32, 105, 115, 32, 114, 101,
         113, 117, 105, 114, 101, 100>>,
     \* "Error: First Name is required"
     REQUIRED_FIRST_NAME |->
         <<69, 114, 114, 111, 114, 58, 32, 70, 105, 114, 115, 116, 32, 78,
         97, 109, 101, 32, 105, 115, 32, 114, 101, 113, 117, 105, 114, 101,
         100>>,
     \* "Error: Last Name is required"
     REQUIRED_LAST_NAME |->
         <<69, 114, 114, 111, 114, 58, 32, 76, 97, 115, 116, 32, 78, 97,
         109, 101, 32, 105, 115, 32, 114, 101, 113, 117, 105, 114, 101,
         100>>,
     \* "Error: Postal Code is required"
     REQUIRED_POSTAL_CODE |->
         <<69, 114, 114, 111, 114, 58, 32, 80, 111, 115, 116, 97, 108, 32,
         67, 111, 100, 101, 32, 105, 115, 32, 114, 101, 113, 117, 105, 114,
         101, 100>>]

\* TestData.STANDARD_USER
STANDARD_USER ==
    [\* "standard_user"
     username |->
         <<115, 116, 97, 110, 100, 97, 114, 100, 95, 117, 115, 101, 114>>,
     \* "secret_sauce"
     password |->
         <<115, 101, 99, 114, 101, 116, 95, 115, 97, 117, 99, 101>>]

\* TestData.INVALID_USER
INVALID_USER ==
    [\* "invalid_user"
     username |->
         <<105, 110, 118, 97, 108, 105, 100, 95, 117, 115, 101, 114>>,
     \* "invalid_password"
     password |->
         <<105, 110, 118, 97, 108, 105, 100, 95, 112, 97, 115, 115, 119,
         111, 114, 100>>]

\* TestData.LOCKED_OUT_USER
LOCKED_OUT_USER ==
    [\* "locked_out_user"
     username |->
         <<108, 111, 99, 107, 101, 100, 95, 111, 117, 116, 95, 117, 115,
         101, 114>>,
     \* "secret_sauce"
     password |->
         <<115, 101, 99, 114, 101, 116, 95, 115, 97, 117, 99, 101>>]

\* TestData.PERFORMANCE_GLITCH_USER
PERFORMANCE_GLITCH_USER ==
    [\* "performance_glitch_user"
     username |->
         <<112, 101, 114, 102, 111, 114, 109, 97, 110, 99, 101, 95, 103,
         108, 105, 116, 99, 104, 95, 117, 115, 101, 114>>,
     \* "secret_sauce"
     password |->
         <<115, 101, 99, 114, 101, 116, 95, 115, 97, 117, 99, 101>>]

\* TestData.CHECKOUT_INFORMATION
CHECKOUT_INFORMATION ==
    [\* "demo"
     firstName |->
         <<100, 101, 109, 111>>,
     \* "user"
     lastName |->
         <<117, 115, 101, 114>>,
     \* "12345"
     postalCode |->
         <<49, 50, 51, 52, 53>>]

\* the paths of the screens: page.goto('/'), and the paths the isOn...Page methods look for
PATHS ==
    [\* "/"
     login |->
         <<47>>,
     \* "/inventory.html"
     inventory |->
         <<47, 105, 110, 118, 101, 110, 116, 111, 114, 121, 46, 104, 116,
         109, 108>>,
     \* "/cart.html"
     cart |->
         <<47, 99, 97, 114, 116, 46, 104, 116, 109, 108>>,
     \* "/checkout-step-one.html"
     stepOne |->
         <<47, 99, 104, 101, 99, 107, 111, 117, 116, 45, 115, 116, 101,
         112, 45, 111, 110, 101, 46, 104, 116, 109, 108>>,
     \* "/checkout-step-two.html"
     stepTwo |->
         <<47, 99, 104, 101, 99, 107, 111, 117, 116, 45, 115, 116, 101,
         112, 45, 116, 119, 111, 46, 104, 116, 109, 108>>,
     \* "/checkout-complete.html"
     complete |->
         <<47, 99, 104, 101, 99, 107, 111, 117, 116, 45, 99, 111, 109, 112,
         108, 101, 116, 101, 46, 104, 116, 109, 108>>]

----------------------------------------------------------------------------
(* A call that has not completed, and the components that are not in use *)

NoOutcome == [kind |-> "none", val |-> "none"]

LoadIdle ==
    /\ loadPage = "none" /\ networkIdle = FALSE /\ required = <<>>
    /\ lpc = "off" /\ lOutcome = NoOutcome

QueryIdle ==
    /\ query = "none" /\ queried = [state |-> "absent", text |-> <<>>]
    /\ qpc = "off" /\ qOutcome = NoOutcome

\* no click on a submit button yet: a record with none of the inputs
NotSubmitted == [clicked |-> FALSE]

SessionIdle ==
    /\ sessUrl = <<>> /\ trail = <<>> /\ errorBanner = <<>>
    /\ loginForm = [username |-> <<>>, password |-> <<>>] /\ typed = loginForm
    /\ infoForm = [firstName |-> <<>>, lastName |-> <<>>, postalCode |-> <<>>]
    /\ infoTyped = infoForm
    /\ submitted = NotSubmitted /\ infoSubmitted = NotSubmitted

RunnerIdle ==
    /\ pending = {} /\ running = <<>> /\ phase = <<>> /\ binding = <<>>
    /\ loggedIn = {} /\ opsDone = <<>> /\ acted = {}

RemoveIdle ==
    /\ cartRows = <<>> /\ rmItems = <<>> /\ itemName = <<>> /\ rmIdx = 0
    /\ removeClicks = <<>> /\ rmpc = "off"

CompositeIdle ==
    /\ composite = "none" /\ controls = <<>> /\ cIdx = 0 /\ issued = <<>>
    /\ cpc = "off" /\ cOutcome = NoOutcome

BannerIdle ==
    /\ banner = [state |-> "absent", text |-> <<>>] /\ renderAt = 0 /\ callAt = 0
    /\ clock = 0 /\ bannerQuery = "none" /\ epc = "off" /\ eOutcome = NoOutcome

RetryIdle ==
    /\ maxRetries = 0 /\ baseDelay = 0 /\ attempt = 0
    /\ lastError = "unset" /\ rpc = "off"
    /\ calls = <<>> /\ delays = <<>> /\ outcome = NoOutcome

InventoryIdle ==
    /\ items = <<>> /\ itemIdx = 0 /\ clicks = <<>> /\ cart = {}
    /\ ipc = "off" /\ iOutcome = NoOutcome

\* the calls of Flow 5 whose value the scenario receives
NoResults ==
    [loaded |-> FALSE, onComplete |-> FALSE, elementsVisible |-> FALSE,
     completion |-> FALSE, thankYou |-> FALSE, dispatch |-> FALSE,
     onInventory |-> FALSE]

ScenarioIdle ==
    /\ url = <<>> /\ elements = <<>> /\ completeHeader = <<>> /\ completeText = <<>>
    /\ spc = "off" /\ results = NoResults /\ backHomeClicked = FALSE
    /\ sOutcome = NoOutcome

TotalIdle ==
    /\ itemPrices = <<>> /\ totalLabel = <<>> /\ calculatedTotal = Num(0)
    /\ tpc = "off" /\ tOutcome = NoOutcome

VerifyIdle ==
    /\ expectedItems = <<>> /\ cartItemNames = <<>>
    /\ vpc = "off" /\ vOutcome = NoOutcome

BadgeIdle ==
    /\ cartBadge = [present |-> FALSE, text |-> <<>>]
    /\ bpc = "off" /\ bOutcome = NoOutcome

----------------------------------------------------------------------------
(* TestHelpers.retryWithBackoff *)

\* values fn may resolve with, errors it may reject with
FnValues == {"v1", "v2"}
FnErrors == {"e1", "e2"}

BaseDelays == {0, 1, 1000}

RECURSIVE Pow2(_)
Pow2(n) == IF n <= 0 THEN 1 ELSE 2 * Pow2(n - 1)

\* a loop that stops one attempt early: attempt < maxRetries
LoopCondStrict(a, m) == a < m

\* for (...; attempt <= maxRetries; ...)
LoopCond(a, m) == a <= m

\* if (attempt === maxRetries)
IsLastAttempt(a, m) == a = m

\* a loop that forgets to advance attempt
NextAttemptStuck(a) == a

\* attempt++
NextAttempt(a) == a + 1

\* a linear instead of an exponential backoff
BackoffDelayLinear(base, a) == base * (a + 1)

\* const delay = baseDelay * Math.pow(2, attempt)
BackoffDelay(base, a) == base * Pow2(a)

\* a catch that keeps the first error instead of the latest
CaughtErrorFirst(prev, e) == IF prev = "unset" THEN e ELSE prev

\* lastError = error as Error
CaughtError(prev, e) == e

\* a success that is stored but does not leave the loop
AfterSuccessContinue == "wait"

\* return await fn();  leaves the loop and the function
AfterSuccess == "done"

RetryStart ==
    /\ maxRetries \in -1 .. MaxRetriesBound
    /\ baseDelay \in BaseDelays
    /\ attempt = 0
    /\ lastError = "unset"
    /\ rpc = "loop"
    /\ calls = <<>>
    /\ delays = <<>>
    /\ outcome = NoOutcome

\* try { return await fn(); }
AttemptReturns ==
    /\ rpc = "loop"
    /\ LoopCond(attempt, maxRetries)
    /\ Len(calls) < MaxCalls
    /\ \E v \in FnValues :
          /\ calls' = Append(calls, [ok |-> TRUE, val |-> v])
          /\ outcome' = [kind |-> "returned", val |-> v]
    /\ rpc' = AfterSuccess
    /\ UNCHANGED <<maxRetries, baseDelay, attempt, lastError, delays, notRetry>>

\* catch (error) { lastError = error; if (attempt === maxRetries) throw lastError;
\*                 const delay = ...; await new Promise(... setTimeout ...) }
AttemptThrows ==
    /\ rpc = "loop"
    /\ LoopCond(attempt, maxRetries)
    /\ Len(calls) < MaxCalls
    /\ \E e \in FnErrors :
          /\ calls' = Append(calls, [ok |-> FALSE, val |-> e])
          /\ lastError' = CaughtError(lastError, e)
    /\ IF IsLastAttempt(attempt, maxRetries)
          THEN /\ outcome' = [kind |-> "thrown", val |-> lastError']
               /\ rpc' = "done"
               /\ delays' = delays
          ELSE /\ delays' = Append(delays, BackoffDelay(baseDelay, attempt))
               /\ rpc' = "wait"
               /\ outcome' = outcome
    /\ UNCHANGED <<maxRetries, baseDelay, attempt, notRetry>>

\* the timer fires, the loop continues with attempt++
TimerFires ==
    /\ rpc = "wait"
    /\ attempt' = NextAttempt(attempt)
    /\ rpc' = "loop"
    /\ UNCHANGED <<maxRetries, baseDelay, lastError, calls, delays, outcome, notRetry>>

\* throw lastError!  (after the loop)
ThrowAfterLoop ==
    /\ rpc = "loop"
    /\ ~LoopCond(attempt, maxRetries)
    /\ outcome' = [kind |-> "thrown", val |-> lastError]
    /\ rpc' = "done"
    /\ UNCHANGED <<maxRetries, baseDelay, attempt, lastError, calls, delays, notRetry>>

InitRetry ==
    /\ RetryStart
    /\ InventoryIdle
    /\ BadgeIdle
    /\ VerifyIdle
    /\ TotalIdle
    /\ ScenarioIdle
    /\ LoadIdle
    /\ QueryIdle
    /\ SessionIdle
    /\ RunnerIdle
    /\ RemoveIdle
    /\ CompositeIdle
    /\ BannerIdle

NextRetry ==
    \/ AttemptReturns
    \/ AttemptThrows
    \/ TimerFires
    \/ ThrowAfterLoop

SpecRetry == InitRetry /\ [][NextRetry]_vars

\* every step of the call is awaited: the call is never abandoned midway
FairSpecRetry == SpecRetry /\ WF_vars(NextRetry)

\* the text of a name element with white space around the name: " Sauce Labs Bolt T-Shirt "
PaddedBoltTShirt ==
    <<32, 83, 97, 117, 99, 101, 32, 76, 97, 98, 115, 32, 66, 111, 108, 116,
    32, 84, 45, 83, 104, 105, 114, 116, 32>>

\* TestData.PRODUCTS.SAUCE_LABS_BACKPACK.price: "$29.99"
PRICE_BACKPACK ==
    <<36, 50, 57, 46, 57, 57>>

\* TestData.PRODUCTS.SAUCE_LABS_BIKE_LIGHT.price: "$9.99"
PRICE_BIKE_LIGHT ==
    <<36, 57, 46, 57, 57>>

\* TestData.PRODUCTS.SAUCE_LABS_BOLT_T_SHIRT.price: "$15.99"
PRICE_BOLT_T_SHIRT ==
    <<36, 49, 53, 46, 57, 57>>

\* the caption of the .summary_total_label element: "Total: $"
TotalPrefix ==
    <<84, 111, 116, 97, 108, 58, 32, 36>>

\* the header verifyCheckoutCompletion and verifyThankYouMessage expect: "Thank you for your order!"
ORDER_COMPLETE ==
    <<84, 104, 97, 110, 107, 32, 121, 111, 117, 32, 102, 111, 114, 32, 121,
    111, 117, 114, 32, 111, 114, 100, 101, 114, 33>>

\* the first substring expected in the body: "Your order has been dispatched"
ORDER_DISPATCHED ==
    <<89, 111, 117, 114, 32, 111, 114, 100, 101, 114, 32, 104, 97, 115, 32,
    98, 101, 101, 110, 32, 100, 105, 115, 112, 97, 116, 99, 104, 101, 100>>

\* the second substring expected in the body: "will arrive just as fast as the pony can get there!"
PONY_ARRIVAL ==
    <<119, 105, 108, 108, 32, 97, 114, 114, 105, 118, 101, 32, 106, 117,
    115, 116, 32, 97, 115, 32, 102, 97, 115, 116, 32, 97, 115, 32, 116, 104,
    101, 32, 112, 111, 110, 121, 32, 99, 97, 110, 32, 103, 101, 116, 32,
    116, 104, 101, 114, 101, 33>>

\* TestData.BASE_URL: "https://www.saucedemo.com"
BASE_URL ==
    <<104, 116, 116, 112, 115, 58, 47, 47, 119, 119, 119, 46, 115, 97, 117,
    99, 101, 100, 101, 109, 111, 46, 99, 111, 109>>

\* the path isOnInventoryPage looks for: "/inventory.html"
PATH_INVENTORY ==
    <<47, 105, 110, 118, 101, 110, 116, 111, 114, 121, 46, 104, 116, 109,
    108>>

\* the path isOnCheckoutCompletePage looks for: "/checkout-complete.html"
PATH_CHECKOUT_COMPLETE ==
    <<47, 99, 104, 101, 99, 107, 111, 117, 116, 45, 99, 111, 109, 112, 108,
    101, 116, 101, 46, 104, 116, 109, 108>>

\* the path of the overview screen: "/checkout-step-two.html"
PATH_CHECKOUT_STEP_TWO ==
    <<47, 99, 104, 101, 99, 107, 111, 117, 116, 45, 115, 116, 101, 112, 45,
    116, 119, 111, 46, 104, 116, 109, 108>>

\* the expected header with white space around it: "  Thank you for your order! "
HeaderPadded ==
    <<32, 32, 84, 104, 97, 110, 107, 32, 121, 111, 117, 32, 102, 111, 114,
    32, 121, 111, 117, 114, 32, 111, 114, 100, 101, 114, 33, 32>>

\* a header with another wording: "Thank you!"
HeaderShort ==
    <<84, 104, 97, 110, 107, 32, 121, 111, 117, 33>>

\* the expected header in capitals: "THANK YOU FOR YOUR ORDER!"
HeaderCapitals ==
    <<84, 72, 65, 78, 75, 32, 89, 79, 85, 32, 70, 79, 82, 32, 89, 79, 85,
    82, 32, 79, 82, 68, 69, 82, 33>>

\* the body the target shows: "Your order has been dispatched, and will arrive just as fast as the pony can get there!"
BodyFull ==
    <<89, 111, 117, 114, 32, 111, 114, 100, 101, 114, 32, 104, 97, 115, 32,
    98, 101, 101, 110, 32, 100, 105, 115, 112, 97, 116, 99, 104, 101, 100,
    44, 32, 97, 110, 100, 32, 119, 105, 108, 108, 32, 97, 114, 114, 105,
    118, 101, 32, 106, 117, 115, 116, 32, 97, 115, 32, 102, 97, 115, 116,
    32, 97, 115, 32, 116, 104, 101, 32, 112, 111, 110, 121, 32, 99, 97, 110,
    32, 103, 101, 116, 32, 116, 104, 101, 114, 101, 33>>

\* a body with the first expected substring only: "Your order has been dispatched."
BodyDispatchOnly ==
    <<89, 111, 117, 114, 32, 111, 114, 100, 101, 114, 32, 104, 97, 115, 32,
    98, 101, 101, 110, 32, 100, 105, 115, 112, 97, 116, 99, 104, 101, 100,
    46>>

\* a body with the second expected substring only: "It will arrive just as fast as the pony can get there!"
BodyPonyOnly ==
    <<73, 116, 32, 119, 105, 108, 108, 32, 97, 114, 114, 105, 118, 101, 32,
    106, 117, 115, 116, 32, 97, 115, 32, 102, 97, 115, 116, 32, 97, 115, 32,
    116, 104, 101, 32, 112, 111, 110, 121, 32, 99, 97, 110, 32, 103, 101,
    116, 32, 116, 104, 101, 114, 101, 33>>

\* a body with neither expected substring: "Your order is being processed."
BodyOther ==
    <<89, 111, 117, 114, 32, 111, 114, 100, 101, 114, 32, 105, 115, 32, 98,
    101, 105, 110, 103, 32, 112, 114, 111, 99, 101, 115, 115, 101, 100, 46>>

----------------------------------------------------------------------------
(* InventoryPage.addItemsToCart *)

EmptyString == <<>>

\* item names handed to addItemsToCart
ItemNames ==
    {SAUCE_LABS_BACKPACK, SAUCE_LABS_BIKE_LIGHT, SAUCE_LABS_BOLT_T_SHIRT,
     UpperBackpack, LowerBikeLight, SauceLabsOnesie, EmptyString}

\* a switch on the name as given, without toLowerCase
ItemCaseExact(item) ==
    CASE item = caseBackpack   -> "sauceLabsBackpack"
      [] item = caseBikeLight  -> "sauceLabsBikeLight"
      [] item = caseBoltTShirt -> "sauceLabsBoltTShirt"
      [] OTHER                 -> "default"

\* switch (item.toLowerCase()): the locator clicked, or "default"
ItemCase(item) ==
    LET lower == ToLowerCase(item)
    IN  CASE lower = caseBackpack   -> "sauceLabsBackpack"
          [] lower = caseBikeLight  -> "sauceLabsBikeLight"
          [] lower = caseBoltTShirt -> "sauceLabsBoltTShirt"
          [] OTHER                  -> "default"

\* the listing screen shows the add-to-cart control of an item only while the
\* item is not in the cart; a click on a control that is not there times out
ControlPresent(control, inCart) == control \notin inCart

\* throw new Error(`Unknown item: ${item}`)
UnknownItemError(item) == [type |-> "UnknownItem", item |-> item]

\* the rejection of locator.click() when the control never becomes actionable
ClickTimeout(control) == [type |-> "Timeout", item |-> control]

InventoryStart ==
    /\ items \in SeqsUpTo(ItemNames, MaxItems)
    /\ itemIdx = 1
    /\ clicks = <<>>
    /\ cart = {}
    /\ ipc = "loop"
    /\ iOutcome = NoOutcome

\* one iteration of for (const item of items), a recognized name:
\* await this.addBackpackToCart() / addBikeLightToCart() / addBoltTShirtToCart()
AddItemClick ==
    /\ ipc = "loop"
    /\ itemIdx <= Len(items)
    /\ ItemCase(items[itemIdx]) # "default"
    /\ LET control == ItemCase(items[itemIdx])
           present == ControlPresent(control, cart)
       IN  /\ clicks' = Append(clicks, [pos |-> itemIdx, control |-> control, ok |-> present])
           /\ IF present
                 THEN /\ cart' = cart \cup {control}
                      /\ itemIdx' = itemIdx + 1
                      /\ UNCHANGED <<ipc, iOutcome>>
                 ELSE /\ iOutcome' = [kind |-> "thrown", val |-> ClickTimeout(control)]
                      /\ ipc' = "done"
                      /\ UNCHANGED <<cart, itemIdx>>
    /\ UNCHANGED <<items, notInventory>>

\* one iteration, the default case: throw new Error(`Unknown item: ${item}`)
AddItemUnknown ==
    /\ ipc = "loop"
    /\ itemIdx <= Len(items)
    /\ ItemCase(items[itemIdx]) = "default"
    /\ iOutcome' = [kind |-> "thrown", val |-> UnknownItemError(items[itemIdx])]
    /\ ipc' = "done"
    /\ UNCHANGED <<items, itemIdx, clicks, cart, notInventory>>

\* the list is exhausted: the call resolves
AddItemsReturn ==
    /\ ipc = "loop"
    /\ itemIdx > Len(items)
    /\ iOutcome' = [kind |-> "returned", val |-> "undefined"]
    /\ ipc' = "done"
    /\ UNCHANGED <<items, itemIdx, clicks, cart, notInventory>>

InitAddItems ==
    /\ InventoryStart
    /\ RetryIdle
    /\ BadgeIdle
    /\ VerifyIdle
    /\ TotalIdle
    /\ ScenarioIdle
    /\ LoadIdle
    /\ QueryIdle
    /\ SessionIdle
    /\ RunnerIdle
    /\ RemoveIdle
    /\ CompositeIdle
    /\ BannerIdle

NextAddItems ==
    \/ AddItemClick
    \/ AddItemUnknown
    \/ AddItemsReturn

SpecAddItems == InitAddItems /\ [][NextAddItems]_vars

----------------------------------------------------------------------------
(* InventoryPage.getCartItemCount *)

\* characters of the badge texts explored: "0", "1", "a", " ", "-", "x"
BadgeChars == {48, 49, 97, 32, 45, 120}

\* the null that textContent() may resolve with, kept apart from every text
Null == <<-1>>

\* textContent() of an element: its text, or null
BadgeTexts == SeqsUpTo(BadgeChars, MaxBadgeLen) \cup {Null}

\* the length of the text in the place of its value
CountOfBadgeTextLength(badgeText) ==
    IF badgeText = Null \/ badgeText = <<>> THEN Num(0) ELSE Num(Len(badgeText))

\* badgeText ? parseInt(badgeText) : 0   (null and '' are falsy)
CountOfBadgeText(badgeText) ==
    IF badgeText = Null \/ badgeText = <<>> THEN Num(0) ELSE ParseInt(badgeText)

BadgeStart ==
    /\ \/ cartBadge = [present |-> FALSE, text |-> <<>>]
       \/ \E t \in BadgeTexts : cartBadge = [present |-> TRUE, text |-> t]
    /\ bpc = "call"
    /\ bOutcome = NoOutcome

\* try { const badgeText = await this.cartBadge.textContent();
\*       return badgeText ? parseInt(badgeText) : 0; }
GetCartItemCountReads ==
    /\ bpc = "call"
    /\ cartBadge.present
    /\ bOutcome' = [kind |-> "returned", val |-> CountOfBadgeText(cartBadge.text)]
    /\ bpc' = "done"
    /\ UNCHANGED <<cartBadge, notBadge>>

\* textContent() rejects when the badge never attaches: catch { return 0; }
GetCartItemCountCatches ==
    /\ bpc = "call"
    /\ ~cartBadge.present
    /\ bOutcome' = [kind |-> "returned", val |-> Num(0)]
    /\ bpc' = "done"
    /\ UNCHANGED <<cartBadge, notBadge>>

InitBadge ==
    /\ BadgeStart
    /\ RetryIdle
    /\ InventoryIdle
    /\ VerifyIdle
    /\ TotalIdle
    /\ ScenarioIdle
    /\ LoadIdle
    /\ QueryIdle
    /\ SessionIdle
    /\ RunnerIdle
    /\ RemoveIdle
    /\ CompositeIdle
    /\ BannerIdle

NextBadge ==
    \/ GetCartItemCountReads
    \/ GetCartItemCountCatches

SpecBadge == InitBadge /\ [][NextBadge]_vars

----------------------------------------------------------------------------
(* CartPage.verifyCartItems *)

\* names a scenario may expect
ExpectedNames == {SAUCE_LABS_BACKPACK, SAUCE_LABS_BIKE_LIGHT, SAUCE_LABS_BOLT_T_SHIRT}

\* texts the name elements of the cart rows may carry
DisplayedTexts == {SAUCE_LABS_BACKPACK, SAUCE_LABS_BIKE_LIGHT, PaddedBoltTShirt}

\* getCartItemNames: names.map(name => name.trim())
GetCartItemNames(texts) == [i \in 1 .. Len(texts) |-> Trim(texts[i])]

\* a toContain that compares without regard to letter case
ContainsIgnoringCase(actualItems, expectedItem) ==
    \E i \in 1 .. Len(actualItems) :
        ToLowerCase(actualItems[i]) = ToLowerCase(expectedItem)

\* expect(actualItems).toContain(expectedItem)
Contains(actualItems, expectedItem) ==
    \E i \in 1 .. Len(actualItems) : actualItems[i] = expectedItem

\* positions of the expected names that the cart does not show
MissingExpected(expected, actualItems) ==
    {i \in 1 .. Len(expected) : ~Contains(actualItems, expected[i])}

\* expect(actualItems.length).toBe(expectedItems.length)
SameLength(actualItems, expected) == Len(actualItems) = Len(expected)

VerifyStart ==
    /\ expectedItems \in SeqsUpTo(ExpectedNames, MaxCartRows)
    /\ cartItemNames \in SeqsUpTo(DisplayedTexts, MaxCartRows)
    /\ vpc = "call"
    /\ vOutcome = NoOutcome

\* every toContain holds and the lengths agree: the call resolves
VerifyCartItemsPasses ==
    /\ vpc = "call"
    /\ LET actualItems == GetCartItemNames(cartItemNames)
       IN  /\ MissingExpected(expectedItems, actualItems) = {}
           /\ SameLength(actualItems, expectedItems)
    /\ vOutcome' = [kind |-> "returned", val |-> "undefined"]
    /\ vpc' = "done"
    /\ UNCHANGED <<expectedItems, cartItemNames, notVerify>>

\* the loop stops at the first expected name that toContain does not find
VerifyCartItemsMissing ==
    /\ vpc = "call"
    /\ LET actualItems == GetCartItemNames(cartItemNames)
           missing == MissingExpected(expectedItems, actualItems)
       IN  /\ missing # {}
           /\ LET first == CHOOSE i \in missing : \A j \in missing : i <= j
              IN  vOutcome' = [kind |-> "thrown",
                               val |-> [type |-> "toContain", item |-> expectedItems[first]]]
    /\ vpc' = "done"
    /\ UNCHANGED <<expectedItems, cartItemNames, notVerify>>

\* every expected name is shown, but the number of rows differs
VerifyCartItemsLength ==
    /\ vpc = "call"
    /\ LET actualItems == GetCartItemNames(cartItemNames)
       IN  /\ MissingExpected(expectedItems, actualItems) = {}
           /\ ~SameLength(actualItems, expectedItems)
           /\ vOutcome' = [kind |-> "thrown",
                           val |-> [type |-> "toBe", item |-> <<Len(actualItems)>>]]
    /\ vpc' = "done"
    /\ UNCHANGED <<expectedItems, cartItemNames, notVerify>>

InitVerify ==
    /\ VerifyStart
    /\ RetryIdle
    /\ InventoryIdle
    /\ BadgeIdle
    /\ TotalIdle
    /\ ScenarioIdle
    /\ LoadIdle
    /\ QueryIdle
    /\ SessionIdle
    /\ RunnerIdle
    /\ RemoveIdle
    /\ CompositeIdle
    /\ BannerIdle

NextVerify ==
    \/ VerifyCartItemsPasses
    \/ VerifyCartItemsMissing
    \/ VerifyCartItemsLength

SpecVerify == InitVerify /\ [][NextVerify]_vars

----------------------------------------------------------------------------
(* Claims about CartPage *)

\* how often a name occurs in a list
Occurrences(list, n) == Cardinality({i \in 1 .. Len(list) : list[i] = n})

\* the names shown in the cart, as a user reads them
ShownNames == [i \in 1 .. Len(cartItemNames) |-> Trim(cartItemNames[i])]

\* same names, each the same number of times, in any order
SameItems(a, b) ==
    /\ Len(a) = Len(b)
    /\ \A i \in 1 .. Len(a) : Occurrences(a, a[i]) = Occurrences(b, a[i])

\* C7: verifyCartItems passes exactly when the names shown in the cart and
\* the expected names are the same names with the same counts, in any order,
\* also for lists in which a name occurs more than once.
VerifyCartItemsExactMatch ==
    (vpc = "done") =>
        ((vOutcome.kind = "returned") <=> SameItems(expectedItems, ShownNames))

----------------------------------------------------------------------------
(* CheckoutOverviewPage.calculateTotalFromItems / verifyTotalCalculation *)

\* price texts of the three catalog items of TestData.PRODUCTS
CatalogPrices == {PRICE_BACKPACK, PRICE_BIKE_LIGHT, PRICE_BOLT_T_SHIRT}

\* the order lines of an overview: each catalog item at most once, any order
OrderPriceLists ==
    {l \in SeqsUpTo(CatalogPrices, 3) : \A i, j \in 1 .. Len(l) : l[i] = l[j] => i = j}

\* the sum of the amounts of a list of price texts, in hundredths
RECURSIVE SumOfPrices(_)
SumOfPrices(l) ==
    IF l = <<>> THEN 0 ELSE ParseFloat(RemoveFirst(Head(l), 36)).n + SumOfPrices(Tail(l))

\* the tax the target adds to an item total, at a rate in percent, rounded to
\* hundredths
TaxOf(itemTotal, percent) == (itemTotal * percent + 50) \div 100

\* the text of the total label: the item total plus the tax
TotalLabelText(itemTotal, percent) ==
    TotalPrefix \o FormatAmount(itemTotal + TaxOf(itemTotal, percent))

\* calculateTotalFromItems: total += parseFloat(price.replace('$', '')) over
\* the trimmed price texts
RECURSIVE CalculateTotalFromItems(_)
CalculateTotalFromItems(prices) ==
    IF prices = <<>> THEN Num(0)
    ELSE LET numericPrice == ParseFloat(RemoveFirst(Trim(Head(prices)), 36))
             restTotal == CalculateTotalFromItems(Tail(prices))
         IN  IF numericPrice.nan \/ restTotal.nan THEN NaN
             ELSE Num(numericPrice.n + restTotal.n)

\* getTotal, then parseFloat(displayedTotal.replace(/[^0-9.]/g, ''))
TotalAmount(label) == ParseFloat(KeepDigitsAndDots(Trim(label)))

\* the outcomes Math.abs(calculatedTotal - totalAmount) < 0.01 can have: the
\* doubles of two amounts a hundredth apart differ by slightly less or slightly
\* more than 0.01, depending on the amounts
WithinTolerance(calculated, total) ==
    IF calculated.nan \/ total.nan THEN {FALSE}
    ELSE LET d == IF calculated.n >= total.n THEN calculated.n - total.n
                  ELSE total.n - calculated.n
         IN  IF d = 0 THEN {TRUE} ELSE IF d = 1 THEN BOOLEAN ELSE {FALSE}

TotalStart ==
    /\ \E l \in OrderPriceLists, percent \in 0 .. MaxTaxPercent :
          /\ itemPrices = l
          /\ totalLabel = TotalLabelText(SumOfPrices(l), percent)
    /\ calculatedTotal = Num(0)
    /\ tpc = "calc"
    /\ tOutcome = NoOutcome

\* const calculatedTotal = await this.calculateTotalFromItems();
CalculateTotal ==
    /\ tpc = "calc"
    /\ calculatedTotal' = CalculateTotalFromItems(itemPrices)
    /\ tpc' = "compare"
    /\ UNCHANGED <<itemPrices, totalLabel, tOutcome, notTotal>>

\* expect(Math.abs(calculatedTotal - totalAmount)).toBeLessThan(0.01) holds
VerifyTotalPasses ==
    /\ tpc = "compare"
    /\ TRUE \in WithinTolerance(calculatedTotal, TotalAmount(totalLabel))
    /\ tOutcome' = [kind |-> "returned", val |-> "undefined"]
    /\ tpc' = "done"
    /\ UNCHANGED <<itemPrices, totalLabel, calculatedTotal, notTotal>>

\* the expectation fails: the call rejects
VerifyTotalFails ==
    /\ tpc = "compare"
    /\ FALSE \in WithinTolerance(calculatedTotal, TotalAmount(totalLabel))
    /\ tOutcome' = [kind |-> "thrown", val |-> "toBeLessThan"]
    /\ tpc' = "done"
    /\ UNCHANGED <<itemPrices, totalLabel, calculatedTotal, notTotal>>

InitTotal ==
    /\ TotalStart
    /\ RetryIdle
    /\ InventoryIdle
    /\ BadgeIdle
    /\ VerifyIdle
    /\ ScenarioIdle
    /\ LoadIdle
    /\ QueryIdle
    /\ SessionIdle
    /\ RunnerIdle
    /\ RemoveIdle
    /\ CompositeIdle
    /\ BannerIdle

NextTotal ==
    \/ CalculateTotal
    \/ VerifyTotalPasses
    \/ VerifyTotalFails

SpecTotal == InitTotal /\ [][NextTotal]_vars

----------------------------------------------------------------------------
(* Claims about CheckoutOverviewPage *)

\* C8: for every non-empty combination of the three catalog items,
\* verifyTotalCalculation passes: the sum of the displayed item prices is
\* within 0.01 of the displayed total.
TotalCalculationPasses ==
    (tpc = "done" /\ itemPrices # <<>>) => (tOutcome.kind = "returned")

----------------------------------------------------------------------------
(* CheckoutCompletePage and Flow 5 of the complete checkout scenario *)

\* the locators of CheckoutCompletePage, in the order of
\* verifyCompletionPageElements
CompletionElements ==
    <<"checkoutCompleteContainer", "backHomeButton", "completeHeader",
      "completeText", "ponyExpressImage">>

\* texts the header and the body of the completion screen may carry
HeaderTexts == {ORDER_COMPLETE, HeaderPadded, HeaderShort, HeaderCapitals, EmptyString}
BodyTexts == {BodyFull, BodyDispatchOnly, BodyPonyOnly, BodyOther, EmptyString}

\* states of an element: shown, attached but not shown, not in the document
ElementStates == {"visible", "hidden", "absent"}

\* locator.isVisible(): false, without waiting, unless the element is shown
IsVisible(el) == elements[el] = "visible"

\* locator.textContent() resolves for an attached element and times out for
\* an absent one
HasText(el) == elements[el] # "absent"

\* getCompleteHeaderText / getCompleteText: text ? text.trim() : ''
TrimmedOrEmpty(text) == IF text = Null \/ text = <<>> THEN <<>> ELSE Trim(text)

\* headerText === 'Thank you for your order!' &&
\* completeText.includes('Your order has been dispatched')
VerifyCheckoutCompletion(header, body) ==
    /\ TrimmedOrEmpty(header) = ORDER_COMPLETE
    /\ Includes(TrimmedOrEmpty(body), ORDER_DISPATCHED)

\* headerText === 'Thank you for your order!'
VerifyThankYouMessage(header) == TrimmedOrEmpty(header) = ORDER_COMPLETE

\* completeText.includes('Your order has been dispatched') &&
\* completeText.includes('will arrive just as fast as the pony can get there!')
VerifyOrderDispatchMessage(body) ==
    /\ Includes(TrimmedOrEmpty(body), ORDER_DISPATCHED)
    /\ Includes(TrimmedOrEmpty(body), PONY_ARRIVAL)

\* for (const element of elements) if (!(await element.isVisible())) return false;
VerifyCompletionPageElements ==
    \A i \in 1 .. Len(CompletionElements) : IsVisible(CompletionElements[i])

\* currentUrl.includes('/checkout-complete.html')
IsOnCheckoutCompletePage(u) == Includes(u, PATH_CHECKOUT_COMPLETE)

\* currentUrl.includes('/inventory.html')
IsOnInventoryPage(u) == Includes(u, PATH_INVENTORY)

\* a rejected call or a failed expect ends the scenario as failed
Failed(why) == [kind |-> "failed", val |-> why]

\* the state after clickFinishButton: the completion screen, or the overview
\* screen when the target did not advance
ScenarioStart ==
    /\ url \in {BASE_URL \o PATH_CHECKOUT_COMPLETE, BASE_URL \o PATH_CHECKOUT_STEP_TWO}
    /\ elements \in [{CompletionElements[i] : i \in 1 .. Len(CompletionElements)}
                        -> ElementStates]
    /\ completeHeader \in HeaderTexts
    /\ completeText \in BodyTexts
    /\ spc = "waitForPageLoad"
    /\ results = NoResults
    /\ backHomeClicked = FALSE
    /\ sOutcome = NoOutcome

\* await checkoutCompletePage.waitForPageLoad();   (the value is dropped)
WaitForCompletePage ==
    /\ spc = "waitForPageLoad"
    /\ results' = [results EXCEPT !.loaded = IsVisible("checkoutCompleteContainer")]
    /\ spc' = "isOnCheckoutCompletePage"
    /\ UNCHANGED <<url, elements, completeHeader, completeText, backHomeClicked,
                   sOutcome, notScenario>>

\* const isOnCheckoutCompletePage = await ...isOnCheckoutCompletePage();
\* expect(isOnCheckoutCompletePage).toBeTruthy();
ExpectOnCompletePage ==
    /\ spc = "isOnCheckoutCompletePage"
    /\ results' = [results EXCEPT !.onComplete = IsOnCheckoutCompletePage(url)]
    /\ IF IsOnCheckoutCompletePage(url)
          THEN spc' = "verifyCompletionPageElements" /\ sOutcome' = sOutcome
          ELSE spc' = "done" /\ sOutcome' = Failed("expect isOnCheckoutCompletePage")
    /\ UNCHANGED <<url, elements, completeHeader, completeText, backHomeClicked,
                   notScenario>>

\* await checkoutCompletePage.verifyCompletionPageElements();   (value dropped)
CallVerifyCompletionPageElements ==
    /\ spc = "verifyCompletionPageElements"
    /\ results' = [results EXCEPT !.elementsVisible = VerifyCompletionPageElements]
    /\ spc' = "verifyCheckoutCompletion"
    /\ UNCHANGED <<url, elements, completeHeader, completeText, backHomeClicked,
                   sOutcome, notScenario>>

\* await checkoutCompletePage.verifyCheckoutCompletion();   (value dropped)
CallVerifyCheckoutCompletion ==
    /\ spc = "verifyCheckoutCompletion"
    /\ IF HasText("completeHeader") /\ HasText("completeText")
          THEN /\ results' = [results EXCEPT !.completion =
                                 VerifyCheckoutCompletion(completeHeader, completeText)]
               /\ spc' = "verifyThankYouMessage"
               /\ sOutcome' = sOutcome
          ELSE /\ spc' = "done"
               /\ sOutcome' = Failed("textContent timeout")
               /\ results' = results
    /\ UNCHANGED <<url, elements, completeHeader, completeText, backHomeClicked,
                   notScenario>>

\* await checkoutCompletePage.verifyThankYouMessage();   (value dropped)
CallVerifyThankYouMessage ==
    /\ spc = "verifyThankYouMessage"
    /\ results' = [results EXCEPT !.thankYou = VerifyThankYouMessage(completeHeader)]
    /\ spc' = "verifyOrderDispatchMessage"
    /\ UNCHANGED <<url, elements, completeHeader, completeText, backHomeClicked,
                   sOutcome, notScenario>>

\* await checkoutCompletePage.verifyOrderDispatchMessage();   (value dropped)
CallVerifyOrderDispatchMessage ==
    /\ spc = "verifyOrderDispatchMessage"
    /\ results' = [results EXCEPT !.dispatch = VerifyOrderDispatchMessage(completeText)]
    /\ spc' = "clickBackHomeButton"
    /\ UNCHANGED <<url, elements, completeHeader, completeText, backHomeClicked,
                   sOutcome, notScenario>>

\* await checkoutCompletePage.clickBackHomeButton(): the click waits for the
\* control to be shown; the target then opens the listing screen
ClickBackHomeButton ==
    /\ spc = "clickBackHomeButton"
    /\ IF IsVisible("backHomeButton")
          THEN /\ backHomeClicked' = TRUE
               /\ url' = BASE_URL \o PATH_INVENTORY
               /\ spc' = "isOnInventoryPage"
               /\ sOutcome' = sOutcome
          ELSE /\ spc' = "done"
               /\ sOutcome' = Failed("click timeout")
               /\ UNCHANGED <<backHomeClicked, url>>
    /\ UNCHANGED <<elements, completeHeader, completeText, results, notScenario>>

\* await inventoryPage.waitForPageLoad();
\* expect(await inventoryPage.isOnInventoryPage()).toBeTruthy();
ExpectBackOnInventory ==
    /\ spc = "isOnInventoryPage"
    /\ results' = [results EXCEPT !.onInventory = IsOnInventoryPage(url)]
    /\ spc' = "done"
    /\ sOutcome' = IF IsOnInventoryPage(url)
                      THEN [kind |-> "passed", val |-> "passed"]
                      ELSE Failed("expect isOnInventoryPage")
    /\ UNCHANGED <<url, elements, completeHeader, completeText, backHomeClicked,
                   notScenario>>

InitScenario ==
    /\ ScenarioStart
    /\ RetryIdle
    /\ InventoryIdle
    /\ BadgeIdle
    /\ VerifyIdle
    /\ TotalIdle
    /\ LoadIdle
    /\ QueryIdle
    /\ SessionIdle
    /\ RunnerIdle
    /\ RemoveIdle
    /\ CompositeIdle
    /\ BannerIdle

NextScenario ==
    \/ WaitForCompletePage
    \/ ExpectOnCompletePage
    \/ CallVerifyCompletionPageElements
    \/ CallVerifyCheckoutCompletion
    \/ CallVerifyThankYouMessage
    \/ CallVerifyOrderDispatchMessage
    \/ ClickBackHomeButton
    \/ ExpectBackOnInventory

SpecScenario == InitScenario /\ [][NextScenario]_vars

----------------------------------------------------------------------------
(* Claims about CheckoutCompletePage and the scenario *)

\* the three verifications of Flow 5 have all resolved
VerificationsDone ==
    spc \in {"clickBackHomeButton", "isOnInventoryPage"}
    \/ (spc = "done" /\ sOutcome.val \in {"passed", "click timeout", "expect isOnInventoryPage"})

\* the header as shown equals the expected header
HeaderAsExpected == Trim(completeHeader) = ORDER_COMPLETE

\* the body as shown contains both expected substrings
BodyAsExpected ==
    /\ Includes(completeText, ORDER_DISPATCHED)
    /\ Includes(completeText, PONY_ARRIVAL)

\* C9: verifyCheckoutCompletion returns true exactly when the header equals
\* the expected header and the body contains both expected substrings, that
\* is, exactly when verifyThankYouMessage and verifyOrderDispatchMessage both
\* return true.
CompletionIsComposite ==
    VerificationsDone =>
        /\ results.completion <=> (HeaderAsExpected /\ BodyAsExpected)
        /\ results.completion <=> (results.thankYou /\ results.dispatch)

\* a mismatch on the completion screen: the header differs, the body lacks an
\* expected substring, or a completion-page element is not visible
CompletionMismatch ==
    \/ ~HeaderAsExpected
    \/ ~BodyAsExpected
    \/ \E i \in 1 .. Len(CompletionElements) : elements[CompletionElements[i]] # "visible"

\* C10: on a mismatch on the completion screen the scenario fails: it does
\* not click the back-home control and does not pass.
MismatchFailsScenario ==
    CompletionMismatch =>
        /\ ~backHomeClicked
        /\ sOutcome.kind # "passed"
        /\ (spc = "done") => (sOutcome.kind = "failed")

----------------------------------------------------------------------------
(* Claims about InventoryPage *)

\* the three names addItemsToCart knows, compared without regard to case
IsKnownName(n) ==
    ToLowerCase(n) \in {ToLowerCase(SAUCE_LABS_BACKPACK),
                        ToLowerCase(SAUCE_LABS_BIKE_LIGHT),
                        ToLowerCase(SAUCE_LABS_BOLT_T_SHIRT)}

UnknownPositions == {i \in 1 .. Len(items) : ~IsKnownName(items[i])}

\* position of the first unrecognized name of the list, 0 when there is none
FirstUnknown ==
    IF UnknownPositions = {} THEN 0
    ELSE CHOOSE i \in UnknownPositions : \A j \in UnknownPositions : i <= j

Unparsable(text) ==
    LET t == TrimStart(text)
        u == IF t # <<>> /\ Head(t) \in {43, 45} THEN Tail(t) ELSE t
    IN  u = <<>> \/ Head(u) \notin 48 .. 57

\* C6: whenever the badge is absent, its text is empty (or null), or its
\* text cannot be parsed as an integer, getCartItemCount returns the number 0
\* and does not throw.
MissingOrUnparsableBadgeIsZero ==
    (bpc = "done" /\ (\/ ~cartBadge.present
                      \/ cartBadge.text = Null
                      \/ Unparsable(cartBadge.text))) =>
        bOutcome = [kind |-> "returned", val |-> Num(0)]

----------------------------------------------------------------------------
(* Claims about retryWithBackoff *)

AllFailed == \A i \in 1 .. Len(calls) : ~calls[i].ok

\* C1: for every maxRetries >= 0 and every behaviour of fn, fn is invoked at
\* most maxRetries + 1 times, and the call eventually completes, either
\* returning a value or throwing.
RetryBoundedAttempts ==
    /\ [](maxRetries >= 0 => Len(calls) <= maxRetries + 1)
    /\ <>(maxRetries < 0 \/ (rpc = "done" /\ outcome.kind \in {"returned", "thrown"}))

RetryBoundedAttemptsWitness ==
    /\ rpc = "done" /\ maxRetries >= 2
    /\ Len(calls) = maxRetries + 1
    /\ outcome.kind = "thrown"

\* C2: when every attempt fails, the error thrown is the one of the last
\* attempt (number maxRetries + 1), and nothing is thrown before all
\* maxRetries + 1 attempts have been made.
RethrowsLastFailure ==
    (maxRetries >= 0) =>
        /\ (outcome.kind = "thrown") =>
              /\ AllFailed
              /\ Len(calls) = maxRetries + 1
              /\ outcome.val = calls[maxRetries + 1].val
        /\ (rpc = "done" /\ AllFailed) => outcome.kind = "thrown"

RethrowsLastFailureWitness ==
    /\ rpc = "done" /\ maxRetries >= 2 /\ AllFailed
    /\ outcome.kind = "thrown"
    /\ calls[1].val # calls[Len(calls)].val
    /\ outcome.val = calls[Len(calls)].val

\* C3: the wait after failed attempt k (from 0) is baseDelay * 2^k; a wait
\* happens only between two attempts: none before the first attempt and none
\* after the final failed attempt.
DelayDoubles ==
    /\ \A k \in 1 .. Len(delays) :
          /\ delays[k] = baseDelay * (2 ^ (k - 1))
          /\ k <= Len(calls) /\ ~calls[k].ok
          /\ k < maxRetries + 1
    /\ (Len(calls) = 0) => (delays = <<>>)
    /\ (rpc \in {"loop", "wait"}) => (Len(delays) = Len(calls))
    /\ (rpc = "done" /\ Len(calls) > 0) => (Len(delays) = Len(calls) - 1)

DelayDoublesWitness ==
    /\ rpc = "done" /\ baseDelay = 1000
    /\ delays = <<1000, 2000, 4000>>
    /\ outcome.kind = "thrown"

\* C4: the call returns the value of the first successful invocation of fn
\* and fn is not invoked again after a success: if attempt k is the first to
\* succeed, fn was called exactly k + 1 times and the result is its value.
ReturnsFirstSuccess ==
    /\ \A k \in 1 .. Len(calls) :
          calls[k].ok =>
              /\ k = Len(calls)
              /\ outcome = [kind |-> "returned", val |-> calls[k].val]
              /\ attempt = k - 1
    /\ (outcome.kind = "returned") => (Len(calls) > 0 /\ calls[Len(calls)].ok)

ReturnsFirstSuccessWitness ==
    /\ rpc = "done" /\ outcome.kind = "returned"
    /\ Len(calls) = 3 /\ attempt = 2
    /\ outcome.val = calls[3].val

----------------------------------------------------------------------------
(* waitForPageLoad of the six page objects *)

\* the elements each waitForPageLoad looks at, in order
RequiredElements(pageObject) ==
    CASE pageObject = "LoginPage"            -> <<"loginLogo", "botImage">>
      [] pageObject = "InventoryPage"        -> <<"inventoryContainer", "cartButton">>
      [] pageObject = "CartPage"             -> <<"cartContainer">>
      [] pageObject = "CheckoutPage"         -> <<"checkoutContainer">>
      [] pageObject = "CheckoutOverviewPage" -> <<"checkoutOverviewContainer">>
      [] pageObject = "CheckoutCompletePage" -> <<"checkoutCompleteContainer">>

PageObjects ==
    {"LoginPage", "InventoryPage", "CartPage", "CheckoutPage",
     "CheckoutOverviewPage", "CheckoutCompletePage"}

\* the page objects whose waitForPageLoad ends in await expect(...).toBeVisible()
ExpectingPageObjects ==
    {"LoginPage", "InventoryPage", "CartPage", "CheckoutPage", "CheckoutOverviewPage"}

\* whether waitForPageLoad of the page object expects its elements visible
\* (toBeVisible rejects when the element does not become visible), rather
\* than returning isVisible()
ExpectsVisible(pageObject) == pageObject \in ExpectingPageObjects

\* every element waitForPageLoad looks at is shown
AllRequiredVisible(pageObject, states) ==
    \A i \in 1 .. Len(RequiredElements(pageObject)) :
        states[RequiredElements(pageObject)[i]] = "visible"

\* the first element of the page object that is not shown
FirstNotVisible(pageObject, states) ==
    LET els == RequiredElements(pageObject)
        bad == {i \in 1 .. Len(els) : states[els[i]] # "visible"}
    IN  els[CHOOSE i \in bad : \A j \in bad : i <= j]

LoadStart ==
    /\ loadPage \in PageObjects
    /\ networkIdle \in BOOLEAN
    /\ required \in [{RequiredElements(loadPage)[i] : i \in 1 .. Len(RequiredElements(loadPage))}
                        -> ElementStates]
    /\ lpc = "call"
    /\ lOutcome = NoOutcome

\* await this.page.waitForLoadState('networkidle') rejects on its timeout
PageLoadTimesOut ==
    /\ lpc = "call"
    /\ ~networkIdle
    /\ lOutcome' = [kind |-> "thrown", val |-> "waitForLoadState"]
    /\ lpc' = "done"
    /\ UNCHANGED <<loadPage, networkIdle, required, notLoad>>

\* await expect(<element>).toBeVisible(), for each element in turn
PageLoadExpectsVisible ==
    /\ lpc = "call"
    /\ networkIdle
    /\ ExpectsVisible(loadPage)
    /\ lOutcome' = IF AllRequiredVisible(loadPage, required)
                      THEN [kind |-> "returned", val |-> "undefined"]
                      ELSE [kind |-> "thrown", val |-> FirstNotVisible(loadPage, required)]
    /\ lpc' = "done"
    /\ UNCHANGED <<loadPage, networkIdle, required, notLoad>>

\* return await this.checkoutCompleteContainer.isVisible();
PageLoadReturnsVisibility ==
    /\ lpc = "call"
    /\ networkIdle
    /\ ~ExpectsVisible(loadPage)
    /\ lOutcome' = [kind |-> "returned",
                    val |-> IF AllRequiredVisible(loadPage, required) THEN "true" ELSE "false"]
    /\ lpc' = "done"
    /\ UNCHANGED <<loadPage, networkIdle, required, notLoad>>

InitLoad ==
    /\ LoadStart
    /\ RetryIdle
    /\ InventoryIdle
    /\ BadgeIdle
    /\ VerifyIdle
    /\ TotalIdle
    /\ ScenarioIdle
    /\ QueryIdle
    /\ SessionIdle
    /\ RunnerIdle
    /\ RemoveIdle
    /\ CompositeIdle
    /\ BannerIdle

NextLoad ==
    \/ PageLoadTimesOut
    \/ PageLoadExpectsVisible
    \/ PageLoadReturnsVisibility

SpecLoad == InitLoad /\ [][NextLoad]_vars

----------------------------------------------------------------------------
(* Claims about waitForPageLoad *)

\* the screen container of the page object (for LoginPage, which has none,
\* the logo and the bot image) is not shown
ContainerNotVisible ==
    \E i \in 1 .. Len(RequiredElements(loadPage)) :
        required[RequiredElements(loadPage)[i]] # "visible"

\* C11: for each of the six page objects, when a required screen container
\* never becomes visible, waitForPageLoad throws; it never completes
\* normally.
PageLoadFailureIsThrown ==
    (lpc = "done" /\ ContainerNotVisible) => (lOutcome.kind = "thrown")

----------------------------------------------------------------------------
(* The queries of an optional element: isErrorMessageVisible and
   getErrorMessage of LoginPage and CheckoutPage, isCartBadgeVisible and
   getCartItemCount of InventoryPage *)

\* return await this.<element>.isVisible();
VisibilityQueries ==
    {"LoginPage.isErrorMessageVisible", "CheckoutPage.isErrorMessageVisible",
     "InventoryPage.isCartBadgeVisible"}

\* try { await this.errorMessage.waitFor({ timeout: 5000 }); ... } catch { return null; }
ErrorMessageQueries == {"LoginPage.getErrorMessage", "CheckoutPage.getErrorMessage"}

CountQueries == {"InventoryPage.getCartItemCount"}

Queries == VisibilityQueries \cup ErrorMessageQueries \cup CountQueries

\* texts the element a query looks at may carry
QueriedTexts(q) ==
    CASE q \in {"LoginPage.isErrorMessageVisible", "LoginPage.getErrorMessage"} ->
            {<<>>, ERROR_MESSAGES.LOCKED_OUT, ERROR_MESSAGES.INVALID_CREDENTIALS, ERROR_MESSAGES.REQUIRED_USERNAME,
             ERROR_MESSAGES.REQUIRED_PASSWORD}
      [] q \in {"CheckoutPage.isErrorMessageVisible", "CheckoutPage.getErrorMessage"} ->
            {<<>>, ERROR_MESSAGES.REQUIRED_FIRST_NAME, ERROR_MESSAGES.REQUIRED_LAST_NAME,
             ERROR_MESSAGES.REQUIRED_POSTAL_CODE}
      [] OTHER -> {<<>>, <<49>>, <<50>>, <<51>>}

\* locator.isVisible(): does not wait, false for an element that is not there
LocatorIsVisible(el) == el.state = "visible"

\* locator.waitFor() resolves when the element is visible within the timeout
WaitForResolves(el) == el.state = "visible"

\* locator.textContent() resolves when the element is attached within the timeout
TextContentResolves(el) == el.state # "absent"

\* getErrorMessage without its catch block
OnErrorMessageTimeoutRethrown == [kind |-> "thrown", val |-> "TimeoutError"]

\* catch { return null; }
OnErrorMessageTimeout == [kind |-> "returned", val |-> Null]

QueryStart ==
    /\ query \in Queries
    /\ \/ queried = [state |-> "absent", text |-> <<>>]
       \/ \E st \in {"visible", "hidden"}, t \in QueriedTexts(query) :
              queried = [state |-> st, text |-> t]
    /\ qpc = "call"
    /\ qOutcome = NoOutcome

\* isErrorMessageVisible, isCartBadgeVisible
IsVisibleReturns ==
    /\ qpc = "call"
    /\ query \in VisibilityQueries
    /\ qOutcome' = [kind |-> "returned", val |-> LocatorIsVisible(queried)]
    /\ qpc' = "done"
    /\ UNCHANGED <<query, queried, notQuery>>

\* getErrorMessage: waitFor resolves, return await this.errorMessage.textContent()
GetErrorMessageReads ==
    /\ qpc = "call"
    /\ query \in ErrorMessageQueries
    /\ WaitForResolves(queried)
    /\ qOutcome' = [kind |-> "returned", val |-> queried.text]
    /\ qpc' = "done"
    /\ UNCHANGED <<query, queried, notQuery>>

\* getErrorMessage: waitFor rejects after 5000 ms
GetErrorMessageCatches ==
    /\ qpc = "call"
    /\ query \in ErrorMessageQueries
    /\ ~WaitForResolves(queried)
    /\ qOutcome' = OnErrorMessageTimeout
    /\ qpc' = "done"
    /\ UNCHANGED <<query, queried, notQuery>>

\* getCartItemCount: the body of GetCartItemCountReads and
\* GetCartItemCountCatches, on the element of this component
GetCartItemCountQuery ==
    /\ qpc = "call"
    /\ query \in CountQueries
    /\ qOutcome' = [kind |-> "returned",
                    val |-> IF TextContentResolves(queried)
                               THEN CountOfBadgeText(queried.text)
                               ELSE Num(0)]
    /\ qpc' = "done"
    /\ UNCHANGED <<query, queried, notQuery>>

InitQuery ==
    /\ QueryStart
    /\ RetryIdle
    /\ InventoryIdle
    /\ BadgeIdle
    /\ VerifyIdle
    /\ TotalIdle
    /\ ScenarioIdle
    /\ LoadIdle
    /\ SessionIdle
    /\ RunnerIdle
    /\ RemoveIdle
    /\ CompositeIdle
    /\ BannerIdle

NextQuery ==
    \/ IsVisibleReturns
    \/ GetErrorMessageReads
    \/ GetErrorMessageCatches
    \/ GetCartItemCountQuery

SpecQuery == InitQuery /\ [][NextQuery]_vars

----------------------------------------------------------------------------
(* Claims about the queries of an optional element *)

\* what each query yields for an element that is not there
AbsentValue(q) ==
    CASE q \in VisibilityQueries   -> FALSE
      [] q \in ErrorMessageQueries -> Null
      [] q \in CountQueries        -> Num(0)

\* C12: whenever the queried element is absent, isErrorMessageVisible and
\* isCartBadgeVisible return false, getErrorMessage returns null and
\* getCartItemCount returns 0; none of them throws.
AbsentElementQueriesNeverThrow ==
    (qpc = "done" /\ queried.state = "absent") =>
        /\ qOutcome.kind = "returned"
        /\ qOutcome.val = AbsentValue(query)

\* getErrorMessage has completed on an absent element, through its catch
AbsentElementQueriesNeverThrowWitness ==
    /\ qpc = "done"
    /\ queried.state = "absent"
    /\ query \in ErrorMessageQueries
    /\ qOutcome = [kind |-> "returned", val |-> Null]

----------------------------------------------------------------------------
(* Claims about the failure of an interaction *)

\* retryWithBackoff: maxRetries: number = 3
DefaultMaxRetries == 3

\* the clicks of the call that failed on the control
FailedClicksOn(control) ==
    {k \in 1 .. Len(clicks) : clicks[k].control = control /\ ~clicks[k].ok}

\* C19: an interaction of a page object that fails (here the click of an
\* add-to-cart control that times out) fails the call only after the bounded
\* retry policy is exhausted: the click has been attempted once and then
\* re-attempted up to the maximum number of retries.
InteractionFailsAfterRetries ==
    (ipc = "done" /\ iOutcome.kind = "thrown" /\ iOutcome.val.type = "Timeout") =>
        Cardinality(FailedClicksOn(iOutcome.val.item)) = DefaultMaxRetries + 1

----------------------------------------------------------------------------
(* LoginPage, driving the start screen of the target *)

\* locator.clear()
Clear(value) == <<>>

\* locator.fill(text): the input holds the text, whatever it held
Fill(value, text) == text

\* await this.<input>.clear(); await this.<input>.fill(text);
FillField(form, field, text) == [form EXCEPT ![field] = Fill(Clear(@), text)]

FillUsername(form, username) == FillField(form, "username", username)

\* a fillPassword that writes into the username input
FillPasswordIntoUsername(form, password) == FillField(form, "username", password)

FillPassword(form, password) == FillField(form, "password", password)

\* isLoggedIn: currentUrl.includes('/inventory.html')
IsLoggedIn(currentUrl) == Includes(currentUrl, PATHS.inventory)

UrlOf(screen) == BASE_URL \o PATHS[screen]

\* the users the target lets in with the password of STANDARD_USER
AcceptedUsernames == {STANDARD_USER.username, PERFORMANCE_GLITCH_USER.username}

\* the answer of the target to a click on the login button: the screen it
\* shows and the error it displays
SiteLogin(form) ==
    CASE form.username = <<>> ->
            [screen |-> "login", error |-> ERROR_MESSAGES.REQUIRED_USERNAME]
      [] form.username # <<>> /\ form.password = <<>> ->
            [screen |-> "login", error |-> ERROR_MESSAGES.REQUIRED_PASSWORD]
      [] OTHER ->
            IF form.password # STANDARD_USER.password
               THEN [screen |-> "login", error |-> ERROR_MESSAGES.INVALID_CREDENTIALS]
            ELSE IF form.username = LOCKED_OUT_USER.username
               THEN [screen |-> "login", error |-> ERROR_MESSAGES.LOCKED_OUT]
            ELSE IF form.username \in AcceptedUsernames
               THEN [screen |-> "inventory", error |-> <<>>]
            ELSE [screen |-> "login", error |-> ERROR_MESSAGES.INVALID_CREDENTIALS]

\* usernames and passwords the scenarios type
Usernames ==
    {<<>>, STANDARD_USER.username, PERFORMANCE_GLITCH_USER.username,
     LOCKED_OUT_USER.username, INVALID_USER.username}

Passwords == {<<>>, STANDARD_USER.password, INVALID_USER.password}

\* beforeEach of the login suite: loginPage = new LoginPage(page); goto()
LoginStart ==
    /\ sessUrl = UrlOf("login") /\ trail = <<"login">> /\ errorBanner = <<>>
    /\ loginForm = [username |-> <<>>, password |-> <<>>] /\ typed = loginForm
    /\ infoForm = [firstName |-> <<>>, lastName |-> <<>>, postalCode |-> <<>>]
    /\ infoTyped = infoForm
    /\ submitted = NotSubmitted /\ infoSubmitted = NotSubmitted

OnLoginScreen == sessUrl = UrlOf("login")

\* what a click on the login button does to the page
ClickLoginEffect(form) ==
    /\ errorBanner' = SiteLogin(form).error
    /\ sessUrl' = UrlOf(SiteLogin(form).screen)
    /\ trail' = IF SiteLogin(form).screen = "login" THEN trail
                ELSE Append(trail, SiteLogin(form).screen)

LoginPageFillUsername ==
    /\ OnLoginScreen
    /\ \E username \in Usernames :
          /\ loginForm' = FillUsername(loginForm, username)
          /\ typed' = [typed EXCEPT !.username = username]
    /\ UNCHANGED <<sessUrl, submitted, errorBanner, infoForm, infoTyped, infoSubmitted, trail,
                   notSession>>

LoginPageFillPassword ==
    /\ OnLoginScreen
    /\ \E password \in Passwords :
          /\ loginForm' = FillPassword(loginForm, password)
          /\ typed' = [typed EXCEPT !.password = password]
    /\ UNCHANGED <<sessUrl, submitted, errorBanner, infoForm, infoTyped, infoSubmitted, trail,
                   notSession>>

LoginPageClickLogin ==
    /\ OnLoginScreen
    /\ ClickLoginEffect(loginForm)
    /\ submitted' = typed
    /\ UNCHANGED <<loginForm, typed, infoForm, infoTyped, infoSubmitted, notSession>>

\* login: fillUsername, fillPassword, clickLogin
LoginPageLogin ==
    /\ OnLoginScreen
    /\ \E username \in Usernames, password \in Passwords :
          /\ loginForm' = FillPassword(FillUsername(loginForm, username), password)
          /\ typed' = [username |-> username, password |-> password]
          /\ submitted' = typed'
          /\ ClickLoginEffect(loginForm')
    /\ UNCHANGED <<infoForm, infoTyped, infoSubmitted, notSession>>

InitLogin ==
    /\ LoginStart
    /\ RetryIdle
    /\ InventoryIdle
    /\ BadgeIdle
    /\ VerifyIdle
    /\ TotalIdle
    /\ ScenarioIdle
    /\ LoadIdle
    /\ QueryIdle
    /\ RunnerIdle
    /\ RemoveIdle
    /\ CompositeIdle
    /\ BannerIdle

NextLogin ==
    \/ LoginPageFillUsername
    \/ LoginPageFillPassword
    \/ LoginPageClickLogin
    \/ LoginPageLogin

SpecLogin == InitLogin /\ [][NextLogin]_vars

----------------------------------------------------------------------------
(* Claims about LoginPage *)

\* the error each class of rejected credentials is expected to get
ExpectedLoginError(form) ==
    CASE form.username = <<>> -> ERROR_MESSAGES.REQUIRED_USERNAME
      [] form.username # <<>> /\ form.password = <<>> -> ERROR_MESSAGES.REQUIRED_PASSWORD
      [] form = LOCKED_OUT_USER -> ERROR_MESSAGES.LOCKED_OUT
      [] OTHER -> ERROR_MESSAGES.INVALID_CREDENTIALS

ValidCredentials == {STANDARD_USER, PERFORMANCE_GLITCH_USER}

\* C13: once the login button is clicked, valid credentials (standard or
\* performance-glitch user) end on the listing path with isLoggedIn true;
\* invalid, locked-out, empty-username and empty-password input stay on the
\* start screen, with the non-empty error expected for that case shown.
LoginOutcomeByCredentialClass ==
    (submitted # NotSubmitted) =>
        IF submitted \in ValidCredentials
           THEN /\ IsLoggedIn(sessUrl)
                /\ sessUrl = UrlOf("inventory")
           ELSE /\ sessUrl = UrlOf("login")
                /\ ~IsLoggedIn(sessUrl)
                /\ errorBanner # <<>>
                /\ errorBanner = ExpectedLoginError(submitted)

\* the standard user has logged in through login()
LoginOutcomeByCredentialClassWitness ==
    /\ submitted = STANDARD_USER
    /\ IsLoggedIn(sessUrl)
    /\ trail = <<"login", "inventory">>

----------------------------------------------------------------------------
(* CheckoutPage, driving the checkout information screen of the target *)

\* a fillFirstName that falls back to the default first name for ''
FillFirstNameOrDefault(form, firstName) ==
    FillField(form, "firstName",
              IF firstName = <<>> THEN CHECKOUT_INFORMATION.firstName ELSE firstName)

FillFirstName(form, firstName) == FillField(form, "firstName", firstName)

\* a fillLastName that writes into the first name input
FillLastNameIntoFirstName(form, lastName) == FillField(form, "firstName", lastName)

FillLastName(form, lastName) == FillField(form, "lastName", lastName)

FillPostalCode(form, postalCode) == FillField(form, "postalCode", postalCode)

\* fillCheckoutInformation: fillFirstName, fillLastName, fillPostalCode
FillCheckoutInformation(form, firstName, lastName, postalCode) ==
    FillPostalCode(FillLastName(FillFirstName(form, firstName), lastName), postalCode)

\* getFormFieldValues: the inputValue() of the three inputs
GetFormFieldValues(form) ==
    [firstName |-> form.firstName, lastName |-> form.lastName,
     postalCode |-> form.postalCode]

\* the answer of the target to a click on continue: the screen it shows and
\* the error it displays, the first empty field deciding
SiteContinue(form) ==
    CASE form.firstName = <<>> ->
            [screen |-> "stepOne", error |-> ERROR_MESSAGES.REQUIRED_FIRST_NAME]
      [] form.firstName # <<>> /\ form.lastName = <<>> ->
            [screen |-> "stepOne", error |-> ERROR_MESSAGES.REQUIRED_LAST_NAME]
      [] form.firstName # <<>> /\ form.lastName # <<>> /\ form.postalCode = <<>> ->
            [screen |-> "stepOne", error |-> ERROR_MESSAGES.REQUIRED_POSTAL_CODE]
      [] OTHER -> [screen |-> "stepTwo", error |-> <<>>]

\* texts the scenarios fill in
FieldTexts ==
    {<<>>, CHECKOUT_INFORMATION.firstName, CHECKOUT_INFORMATION.lastName,
     CHECKOUT_INFORMATION.postalCode}

\* the scenario has logged in, added an item, opened the cart and clicked
\* checkout: the information screen, its inputs empty
CheckoutInfoStart ==
    /\ sessUrl = UrlOf("stepOne")
    /\ trail = <<"login", "inventory", "cart", "stepOne">>
    /\ errorBanner = <<>>
    /\ loginForm = [username |-> <<>>, password |-> <<>>]
    /\ typed = STANDARD_USER /\ submitted = STANDARD_USER
    /\ infoForm = [firstName |-> <<>>, lastName |-> <<>>, postalCode |-> <<>>]
    /\ infoTyped = infoForm
    /\ infoSubmitted = NotSubmitted

\* isOnCheckoutPage: currentUrl.includes('/checkout-step-one.html')
IsOnCheckoutPage(currentUrl) == Includes(currentUrl, PATHS.stepOne)

\* what a click on the continue button does to the page
ClickContinueEffect(form) ==
    /\ errorBanner' = SiteContinue(form).error
    /\ sessUrl' = UrlOf(SiteContinue(form).screen)
    /\ trail' = IF SiteContinue(form).screen = "stepOne" THEN trail
                ELSE Append(trail, SiteContinue(form).screen)

CheckoutPageFillFirstName ==
    /\ IsOnCheckoutPage(sessUrl)
    /\ \E firstName \in FieldTexts :
          /\ infoForm' = FillFirstName(infoForm, firstName)
          /\ infoTyped' = [infoTyped EXCEPT !.firstName = firstName]
    /\ UNCHANGED <<sessUrl, loginForm, typed, submitted, errorBanner, infoSubmitted,
                   trail, notSession>>

CheckoutPageFillLastName ==
    /\ IsOnCheckoutPage(sessUrl)
    /\ \E lastName \in FieldTexts :
          /\ infoForm' = FillLastName(infoForm, lastName)
          /\ infoTyped' = [infoTyped EXCEPT !.lastName = lastName]
    /\ UNCHANGED <<sessUrl, loginForm, typed, submitted, errorBanner, infoSubmitted,
                   trail, notSession>>

CheckoutPageFillPostalCode ==
    /\ IsOnCheckoutPage(sessUrl)
    /\ \E postalCode \in FieldTexts :
          /\ infoForm' = FillPostalCode(infoForm, postalCode)
          /\ infoTyped' = [infoTyped EXCEPT !.postalCode = postalCode]
    /\ UNCHANGED <<sessUrl, loginForm, typed, submitted, errorBanner, infoSubmitted,
                   trail, notSession>>

CheckoutPageFillCheckoutInformation ==
    /\ IsOnCheckoutPage(sessUrl)
    /\ \E firstName \in FieldTexts, lastName \in FieldTexts, postalCode \in FieldTexts :
          /\ infoForm' = FillCheckoutInformation(infoForm, firstName, lastName, postalCode)
          /\ infoTyped' = [firstName |-> firstName, lastName |-> lastName,
                           postalCode |-> postalCode]
    /\ UNCHANGED <<sessUrl, loginForm, typed, submitted, errorBanner, infoSubmitted,
                   trail, notSession>>

CheckoutPageClickContinueButton ==
    /\ IsOnCheckoutPage(sessUrl)
    /\ ClickContinueEffect(infoForm)
    /\ infoSubmitted' = infoTyped
    /\ UNCHANGED <<loginForm, typed, submitted, infoForm, infoTyped, notSession>>

\* completeCheckoutInformation: fillCheckoutInformation, clickContinueButton
CheckoutPageCompleteCheckoutInformation ==
    /\ IsOnCheckoutPage(sessUrl)
    /\ \E firstName \in FieldTexts, lastName \in FieldTexts, postalCode \in FieldTexts :
          /\ infoForm' = FillCheckoutInformation(infoForm, firstName, lastName, postalCode)
          /\ infoTyped' = [firstName |-> firstName, lastName |-> lastName,
                           postalCode |-> postalCode]
          /\ infoSubmitted' = infoTyped'
          /\ ClickContinueEffect(infoForm')
    /\ UNCHANGED <<loginForm, typed, submitted, notSession>>

InitCheckoutInfo ==
    /\ CheckoutInfoStart
    /\ RetryIdle
    /\ InventoryIdle
    /\ BadgeIdle
    /\ VerifyIdle
    /\ TotalIdle
    /\ ScenarioIdle
    /\ LoadIdle
    /\ QueryIdle
    /\ RunnerIdle
    /\ RemoveIdle
    /\ CompositeIdle
    /\ BannerIdle

NextCheckoutInfo ==
    \/ CheckoutPageFillFirstName
    \/ CheckoutPageFillLastName
    \/ CheckoutPageFillPostalCode
    \/ CheckoutPageFillCheckoutInformation
    \/ CheckoutPageClickContinueButton
    \/ CheckoutPageCompleteCheckoutInformation

SpecCheckoutInfo == InitCheckoutInfo /\ [][NextCheckoutInfo]_vars

----------------------------------------------------------------------------
(* Claims about CheckoutPage *)

SomeFieldEmpty(values) ==
    values.firstName = <<>> \/ values.lastName = <<>> \/ values.postalCode = <<>>

\* C16: a click on continue while first name, last name or postal code is
\* empty leaves a visible, non-empty validation error and the page on the
\* checkout information screen, after any partial fills and repeated submits.
EmptyFieldNeverAdvances ==
    (infoSubmitted # NotSubmitted /\ SomeFieldEmpty(infoSubmitted)) =>
        /\ errorBanner # <<>>
        /\ errorBanner \in {ERROR_MESSAGES.REQUIRED_FIRST_NAME,
                            ERROR_MESSAGES.REQUIRED_LAST_NAME,
                            ERROR_MESSAGES.REQUIRED_POSTAL_CODE}
        /\ IsOnCheckoutPage(sessUrl)
        /\ trail[Len(trail)] = "stepOne"

\* a second submit, the postal code still empty after two fields were filled
EmptyFieldNeverAdvancesWitness ==
    /\ infoSubmitted = [CHECKOUT_INFORMATION EXCEPT !.postalCode = <<>>]
    /\ errorBanner = ERROR_MESSAGES.REQUIRED_POSTAL_CODE
    /\ IsOnCheckoutPage(sessUrl)

\* C20: getFormFieldValues returns exactly what the scenario last filled into
\* each input: the three arguments after fillCheckoutInformation, whatever the
\* inputs held (a fill replaces, never appends), and after the fill of one
\* input the other two values as they were.
FormRoundTrip ==
    IsOnCheckoutPage(sessUrl) => GetFormFieldValues(infoForm) = infoTyped

\* first and last name have been filled over a different earlier content, the
\* one that was submitted, and the postal code over the empty input
FormRoundTripWitness ==
    /\ IsOnCheckoutPage(sessUrl)
    /\ infoSubmitted # NotSubmitted
    /\ ~SomeFieldEmpty(infoTyped)
    /\ infoSubmitted.firstName \notin {<<>>, infoTyped.firstName}
    /\ infoSubmitted.lastName \notin {<<>>, infoTyped.lastName}
    /\ infoSubmitted.postalCode = <<>>
    /\ GetFormFieldValues(infoForm) = infoTyped

----------------------------------------------------------------------------
(* InventoryPage, driving the listing screen of the target: the add-to-cart
   controls and the cart badge *)

\* the badge the target shows for a cart of n items: none for an empty cart
SiteBadge(n) ==
    IF n = 0 THEN [present |-> FALSE, text |-> <<>>]
    ELSE [present |-> TRUE, text |-> Digits(n)]

\* beforeEach of the checkout suite: the page objects are created and the
\* standard user is logged in; the listing screen, the cart empty
ListingStart ==
    /\ sessUrl = UrlOf("inventory")
    /\ trail = <<"login", "inventory">>
    /\ errorBanner = <<>>
    /\ loginForm = [username |-> <<>>, password |-> <<>>]
    /\ typed = STANDARD_USER /\ submitted = STANDARD_USER
    /\ infoForm = [firstName |-> <<>>, lastName |-> <<>>, postalCode |-> <<>>]
    /\ infoTyped = infoForm
    /\ infoSubmitted = NotSubmitted

\* await this.<control>.click(), outside addItemsToCart: the item joins the
\* cart and the badge follows, or the click times out and the scenario fails
ClickAddToCart(control) ==
    /\ sessUrl = UrlOf("inventory")
    /\ ipc = "off" /\ iOutcome = NoOutcome
    /\ bpc # "off"
    /\ clicks' = Append(clicks, [pos |-> Len(clicks) + 1, control |-> control,
                                 ok |-> ControlPresent(control, cart)])
    /\ IF ControlPresent(control, cart)
          THEN /\ cart' = cart \cup {control}
               /\ cartBadge' = SiteBadge(Cardinality(cart'))
               /\ bpc' = "call"
               /\ bOutcome' = NoOutcome
               /\ UNCHANGED iOutcome
          ELSE /\ iOutcome' = [kind |-> "thrown", val |-> ClickTimeout(control)]
               /\ bpc' = "off"
               /\ UNCHANGED <<cart, cartBadge, bOutcome>>
    /\ UNCHANGED <<items, itemIdx, ipc, sessionVars, notInventoryBadgeSession>>

\* the screen the target shows after a click on one of its links or buttons
SiteNavigation(control) ==
    CASE control = "cartButton"     -> "cart"
      [] control = "checkoutButton" -> "stepOne"
      [] control = "finishButton"   -> "complete"
      [] control = "backHomeButton" -> "inventory"

\* a click on a link or button of the screen the page shows
ClickEffect(control) ==
    /\ sessUrl' = UrlOf(SiteNavigation(control))
    /\ trail' = Append(trail, SiteNavigation(control))
    /\ UNCHANGED <<loginForm, typed, submitted, errorBanner, infoForm, infoTyped,
                   infoSubmitted>>

\* the catalog name of the item an add-to-cart control belongs to
SiteItemName(control) ==
    CASE control = "sauceLabsBackpack"   -> SAUCE_LABS_BACKPACK
      [] control = "sauceLabsBikeLight"  -> SAUCE_LABS_BIKE_LIGHT
      [] control = "sauceLabsBoltTShirt" -> SAUCE_LABS_BOLT_T_SHIRT

\* the name texts of the rows the cart and overview screens show: the items
\* added, in the order they were added
RECURSIVE SiteCartRows(_)
SiteCartRows(clicked) ==
    IF clicked = <<>> THEN <<>>
    ELSE IF Head(clicked).ok
       THEN <<SiteItemName(Head(clicked).control)>> \o SiteCartRows(Tail(clicked))
       ELSE SiteCartRows(Tail(clicked))

\* clickCartButton: await this.cartButton.click(); the cart screen shows its rows
InventoryPageClickCartButton ==
    /\ sessUrl = UrlOf("inventory")
    /\ ipc # "loop" /\ iOutcome.kind # "thrown"
    /\ ClickEffect("cartButton")
    /\ cartItemNames' = SiteCartRows(clicks)
    /\ UNCHANGED <<expectedItems, vpc, vOutcome, notSessionVerify>>

InventoryPageAddBackpackToCart == ClickAddToCart("sauceLabsBackpack")

InventoryPageAddBikeLightToCart == ClickAddToCart("sauceLabsBikeLight")

InventoryPageAddBoltTShirtToCart == ClickAddToCart("sauceLabsBoltTShirt")

InitCartBadge ==
    /\ ListingStart /\ cartBadge = SiteBadge(0) /\ bpc = "call" /\ bOutcome = NoOutcome
    /\ RetryIdle
    /\ InventoryIdle
    /\ VerifyIdle
    /\ TotalIdle
    /\ ScenarioIdle
    /\ LoadIdle
    /\ QueryIdle
    /\ RunnerIdle
    /\ RemoveIdle
    /\ CompositeIdle
    /\ BannerIdle

NextCartBadge ==
    \/ InventoryPageAddBackpackToCart
    \/ InventoryPageAddBikeLightToCart
    \/ InventoryPageAddBoltTShirtToCart
    \/ InventoryPageClickCartButton
    \/ GetCartItemCountReads
    \/ GetCartItemCountCatches

SpecCartBadge == InitCartBadge /\ [][NextCartBadge]_vars

----------------------------------------------------------------------------
(* Claims about the cart badge *)

\* the additions made so far
Additions == Cardinality({k \in 1 .. Len(clicks) : clicks[k].ok})

\* C14: while distinct catalog items are added one at a time through
\* addBackpackToCart, addBikeLightToCart and addBoltTShirtToCart,
\* getCartItemCount returns the number of additions made so far; before any
\* addition the badge is not visible and the count is 0.
CountFollowsAdditions ==
    /\ (bpc = "done") => (bOutcome = [kind |-> "returned", val |-> Num(Additions)])
    /\ (Additions = 0) => ~cartBadge.present
    /\ (Additions > 0 /\ bpc # "off") => cartBadge.present
    /\ Additions = Cardinality(cart)

\* the count has been read after the third of three additions
CountFollowsAdditionsWitness ==
    /\ bpc = "done"
    /\ Len(clicks) = 3 /\ Additions = 3
    /\ bOutcome = [kind |-> "returned", val |-> Num(3)]

----------------------------------------------------------------------------
(* From the listing to the overview: addItemsToCart, verifyCartItems on the
   cart screen, verifyOrderItems on the overview screen *)

\* await cartPage.verifyCartItems(<the list given to addItemsToCart>)
CallVerifyCartItems ==
    /\ sessUrl = UrlOf("cart")
    /\ vpc = "off"
    /\ expectedItems' = items
    /\ vpc' = "call"
    /\ UNCHANGED <<cartItemNames, vOutcome, notVerify>>

\* clickCheckoutButton: await this.checkoutButton.click()
CartPageClickCheckoutButton ==
    /\ sessUrl = UrlOf("cart")
    /\ vpc # "call" /\ vOutcome.kind # "thrown"
    /\ ClickEffect("checkoutButton")
    /\ UNCHANGED notSession

\* await checkoutOverviewPage.verifyOrderItems(<the same list>): the method
\* has the body of verifyCartItems, over the rows of the overview screen
CallVerifyOrderItems ==
    /\ sessUrl = UrlOf("stepTwo")
    /\ vpc # "call" /\ vOutcome.kind # "thrown"
    /\ expectedItems' = items
    /\ cartItemNames' = SiteCartRows(clicks)
    /\ vpc' = "call"
    /\ vOutcome' = NoOutcome
    /\ UNCHANGED notVerify

InitOrder ==
    /\ ListingStart /\ InventoryStart
    /\ RetryIdle
    /\ BadgeIdle
    /\ VerifyIdle
    /\ TotalIdle
    /\ ScenarioIdle
    /\ LoadIdle
    /\ QueryIdle
    /\ RunnerIdle
    /\ RemoveIdle
    /\ CompositeIdle
    /\ BannerIdle

NextOrder ==
    \/ AddItemClick
    \/ AddItemUnknown
    \/ AddItemsReturn
    \/ InventoryPageClickCartButton
    \/ CallVerifyCartItems
    \/ VerifyCartItemsPasses
    \/ VerifyCartItemsMissing
    \/ CartPageClickCheckoutButton
    \/ CheckoutPageCompleteCheckoutInformation
    \/ CallVerifyOrderItems

SpecOrder == InitOrder /\ [][NextOrder]_vars

----------------------------------------------------------------------------
(* Claims about the items of an order *)

CatalogNames == {SAUCE_LABS_BACKPACK, SAUCE_LABS_BIKE_LIGHT, SAUCE_LABS_BOLT_T_SHIRT}

\* the list given to addItemsToCart is a permutation of N >= 1 catalog items
KnownPermutation ==
    /\ Len(items) >= 1
    /\ \A i \in 1 .. Len(items) : items[i] \in CatalogNames
    /\ \A i, j \in 1 .. Len(items) : items[i] = items[j] => i = j

NamesOf(list) == {list[i] : i \in 1 .. Len(list)}

\* C15: for a permutation of N >= 1 known catalog items given to
\* addItemsToCart, the names shown on the cart screen and on the overview
\* screen are exactly the names added, and verifyCartItems and
\* verifyOrderItems with the same list both pass.
OrderShowsAddedItems ==
    KnownPermutation =>
        /\ (ipc = "done") => (iOutcome.kind = "returned")
        /\ (sessUrl \in {UrlOf("cart"), UrlOf("stepOne"), UrlOf("stepTwo")}) =>
              /\ NamesOf(GetCartItemNames(cartItemNames)) = NamesOf(items)
              /\ Len(cartItemNames) = Len(items)
        /\ (vpc = "done") => (vOutcome.kind = "returned")

\* verifyOrderItems has passed on the overview screen for the three items given
\* in another order than the catalog's
OrderShowsAddedItemsWitness ==
    /\ items = <<SAUCE_LABS_BOLT_T_SHIRT, SAUCE_LABS_BACKPACK, SAUCE_LABS_BIKE_LIGHT>>
    /\ sessUrl = UrlOf("stepTwo")
    /\ trail = <<"login", "inventory", "cart", "stepOne", "stepTwo">>
    /\ expectedItems = items
    /\ vpc = "done" /\ vOutcome.kind = "returned"

----------------------------------------------------------------------------
(* The complete checkout flow of the checkout suite: Flows 1 to 5 *)

\* TestData.CHECKOUT_ITEMS
CHECKOUT_ITEMS == <<SAUCE_LABS_BACKPACK, SAUCE_LABS_BIKE_LIGHT, SAUCE_LABS_BOLT_T_SHIRT>>

\* TestData.PRODUCTS: the price text of the item of an add-to-cart control
ItemPrice(control) ==
    CASE control = "sauceLabsBackpack"   -> PRICE_BACKPACK
      [] control = "sauceLabsBikeLight"  -> PRICE_BIKE_LIGHT
      [] control = "sauceLabsBoltTShirt" -> PRICE_BOLT_T_SHIRT

\* the price texts of the rows of the overview screen
RECURSIVE SitePriceRows(_)
SitePriceRows(clicked) ==
    IF clicked = <<>> THEN <<>>
    ELSE IF Head(clicked).ok
       THEN <<ItemPrice(Head(clicked).control)>> \o SitePriceRows(Tail(clicked))
       ELSE SitePriceRows(Tail(clicked))

\* beforeEach, then await inventoryPage.addItemsToCart(TestData.CHECKOUT_ITEMS)
FlowStart ==
    /\ ListingStart
    /\ items = CHECKOUT_ITEMS
    /\ itemIdx = 1 /\ clicks = <<>> /\ cart = {}
    /\ ipc = "loop" /\ iOutcome = NoOutcome

\* await checkoutOverviewPage.verifyTotalCalculation(): the overview screen
\* shows the prices of its rows and a total with the tax of the target
CallVerifyTotalCalculation ==
    /\ sessUrl = UrlOf("stepTwo")
    /\ vpc = "done" /\ vOutcome.kind = "returned"
    /\ tpc = "off"
    /\ itemPrices' = SitePriceRows(clicks)
    /\ \E percent \in 0 .. MaxTaxPercent :
          totalLabel' = TotalLabelText(SumOfPrices(itemPrices'), percent)
    /\ tpc' = "calc"
    /\ UNCHANGED <<calculatedTotal, tOutcome, notTotal>>

\* clickFinishButton: await this.finishButton.click(); the completion screen
\* shows its elements, header and text
OverviewPageClickFinishButton ==
    /\ sessUrl = UrlOf("stepTwo")
    /\ tpc = "done" /\ tOutcome.kind = "returned"
    /\ spc = "off"
    /\ ClickEffect("finishButton")
    /\ url' = sessUrl'
    /\ elements' = [el \in {CompletionElements[i] : i \in 1 .. Len(CompletionElements)}
                       |-> "visible"]
    /\ completeHeader' = ORDER_COMPLETE
    /\ completeText' = BodyFull
    /\ spc' = "waitForPageLoad"
    /\ UNCHANGED <<results, backHomeClicked, sOutcome, notSessionScenario>>

InitFlow ==
    /\ FlowStart
    /\ RetryIdle
    /\ BadgeIdle
    /\ VerifyIdle
    /\ TotalIdle
    /\ ScenarioIdle
    /\ LoadIdle
    /\ QueryIdle
    /\ RunnerIdle
    /\ RemoveIdle
    /\ CompositeIdle
    /\ BannerIdle

NextFlow ==
    \/ AddItemClick
    \/ AddItemsReturn
    \/ InventoryPageClickCartButton
    \/ CallVerifyCartItems
    \/ VerifyCartItemsPasses
    \/ CartPageClickCheckoutButton
    \/ CheckoutPageCompleteCheckoutInformation
    \/ CallVerifyOrderItems
    \/ CallVerifyTotalCalculation
    \/ CalculateTotal
    \/ VerifyTotalPasses
    \/ VerifyTotalFails
    \/ OverviewPageClickFinishButton
    \/ WaitForCompletePage
    \/ ExpectOnCompletePage
    \/ CallVerifyCompletionPageElements
    \/ CallVerifyCheckoutCompletion
    \/ CallVerifyThankYouMessage
    \/ CallVerifyOrderDispatchMessage
    \/ ClickBackHomeButton
    \/ ExpectBackOnInventory

SpecFlow == InitFlow /\ [][NextFlow]_vars

----------------------------------------------------------------------------
(* Claims about the complete checkout flow *)

\* the screens of the flow, in order
FlowScreens == <<"login", "inventory", "cart", "stepOne", "stepTwo", "complete">>

\* a call of the flow has rejected, or its last expectation was evaluated
FlowEnded ==
    \/ iOutcome.kind = "thrown"
    \/ vOutcome.kind = "thrown"
    \/ tOutcome.kind = "thrown"
    \/ spc = "done"

\* C17: the full flow (login, the three named items, cart, information,
\* overview, finish) goes through the screens in that order with none
\* skipped, it ends having reached the completion screen, and
\* clickBackHomeButton has then led back to the listing screen.
FlowReachesCompletionAndReturns ==
    /\ trail = SubSeq(FlowScreens, 1, Len(trail))
    /\ FlowEnded =>
          /\ trail = FlowScreens
          /\ backHomeClicked
          /\ IsOnInventoryPage(url)

----------------------------------------------------------------------------
(* The scenarios of a suite under the test runner: describe-level variables
   and beforeEach *)

Workers == 1 .. MaxWorkers

Scenarios == 1 .. MaxScenarios

\* the runner hands each scenario a page of its own: the page fixture
PageOf(scenario) == scenario

\* let loginPage, inventoryPage, cartPage, checkoutPage, checkoutOverviewPage,
\* checkoutCompletePage
PageObjectVariables ==
    {"loginPage", "inventoryPage", "cartPage", "checkoutPage", "checkoutOverviewPage",
     "checkoutCompletePage"}

\* a beforeEach that creates a page object only for a variable not yet assigned
BindPageObjectsOnce(bound, page) ==
    [v \in PageObjectVariables |-> IF bound[v] = 0 THEN page ELSE bound[v]]

\* beforeEach: loginPage = new LoginPage(page); ... every variable is assigned
\* a page object created on the page of the scenario
BindPageObjects(bound, page) == [v \in PageObjectVariables |-> page]

\* every worker has its own instance of the test file, its variables unassigned
RunnerStart ==
    /\ pending = Scenarios
    /\ running = [w \in Workers |-> 0]
    /\ phase = [w \in Workers |-> "idle"]
    /\ binding = [w \in Workers |-> [v \in PageObjectVariables |-> 0]]
    /\ loggedIn = {}
    /\ opsDone = [w \in Workers |-> 0]
    /\ acted = {}

\* the runner gives a scenario to a worker that runs none
WorkerStartsScenario ==
    \E w \in Workers, scenario \in pending :
        /\ phase[w] = "idle"
        /\ pending' = pending \ {scenario}
        /\ running' = [running EXCEPT ![w] = scenario]
        /\ phase' = [phase EXCEPT ![w] = "beforeEach"]
        /\ opsDone' = [opsDone EXCEPT ![w] = 0]
        /\ UNCHANGED <<binding, loggedIn, acted, notRunner>>

\* test.beforeEach: the page objects are created, and loginPage.goto(), login()
\* and waitForSuccessfulLogin() log in on the page loginPage holds
BeforeEach ==
    \E w \in Workers :
        /\ phase[w] = "beforeEach"
        /\ binding' = [binding EXCEPT ![w] = BindPageObjects(@, PageOf(running[w]))]
        /\ loggedIn' = loggedIn \cup {binding'[w]["loginPage"]}
        /\ phase' = [phase EXCEPT ![w] = "body"]
        /\ UNCHANGED <<pending, running, opsDone, acted, notRunner>>

\* an operation of a page object in the body of a scenario: it acts on the
\* page the describe-level variable holds
PageObjectOperation ==
    \E w \in Workers, v \in PageObjectVariables :
        /\ phase[w] = "body"
        /\ opsDone[w] < MaxOps
        /\ opsDone' = [opsDone EXCEPT ![w] = @ + 1]
        /\ acted' = acted \cup {[scenario |-> running[w], page |-> binding[w][v]]}
        /\ UNCHANGED <<pending, running, phase, binding, loggedIn, notRunner>>

\* the scenario ends; the runner closes its page
ScenarioEnds ==
    \E w \in Workers :
        /\ phase[w] = "body"
        /\ running' = [running EXCEPT ![w] = 0]
        /\ phase' = [phase EXCEPT ![w] = "idle"]
        /\ UNCHANGED <<pending, binding, loggedIn, opsDone, acted, notRunner>>

InitRunner ==
    /\ RunnerStart
    /\ RetryIdle
    /\ InventoryIdle
    /\ BadgeIdle
    /\ VerifyIdle
    /\ TotalIdle
    /\ ScenarioIdle
    /\ LoadIdle
    /\ QueryIdle
    /\ SessionIdle
    /\ RemoveIdle
    /\ CompositeIdle
    /\ BannerIdle

NextRunner ==
    \/ WorkerStartsScenario
    \/ BeforeEach
    \/ PageObjectOperation
    \/ ScenarioEnds

SpecRunner == InitRunner /\ [][NextRunner]_vars

----------------------------------------------------------------------------
(* Claims about the scenarios of a suite *)

----------------------------------------------------------------------------
(* Claims about the throw after the loop of retryWithBackoff *)

\* the call has ended at the throw placed after the loop: the loop condition
\* no longer holds (the throw inside the loop leaves attempt = maxRetries)
EndedAfterLoop == rpc = "done" /\ ~LoopCond(attempt, maxRetries)

\* C28: the throw after the loop is reached only when maxRetries < 0, and
\* then fn is never invoked and the call rejects with the unset error; for
\* every maxRetries >= 0 fn is invoked at least once and the call ends inside
\* the loop, maxRetries = 0 giving exactly one attempt and no delay.
ThrowAfterLoopOnlyWhenNegative ==
    /\ EndedAfterLoop => (maxRetries < 0)
    /\ (rpc = "done" /\ maxRetries < 0) =>
          /\ EndedAfterLoop
          /\ calls = <<>> /\ delays = <<>>
          /\ outcome = [kind |-> "thrown", val |-> "unset"]
    /\ (rpc = "done" /\ maxRetries >= 0) =>
          /\ Len(calls) >= 1
          /\ ~EndedAfterLoop
    /\ (rpc = "done" /\ maxRetries = 0) =>
          /\ Len(calls) = 1 /\ delays = <<>>

\* a call with maxRetries = -1 has rejected without invoking fn
ThrowAfterLoopOnlyWhenNegativeWitness ==
    /\ rpc = "done"
    /\ maxRetries = -1
    /\ calls = <<>>
    /\ outcome = [kind |-> "thrown", val |-> "unset"]

----------------------------------------------------------------------------
(* Claims about what addItemsToCart leaves behind *)

\* the add-to-cart control that belongs to a recognized name
ControlOfName(n) ==
    CASE ToLowerCase(n) = ToLowerCase(SAUCE_LABS_BACKPACK)     -> "sauceLabsBackpack"
      [] ToLowerCase(n) = ToLowerCase(SAUCE_LABS_BIKE_LIGHT)   -> "sauceLabsBikeLight"
      [] ToLowerCase(n) = ToLowerCase(SAUCE_LABS_BOLT_T_SHIRT) -> "sauceLabsBoltTShirt"

\* C24: addItemsToCart does not validate its list up front: when it throws on
\* an unrecognized name at position i, the controls of the recognized names
\* before i have been clicked, one per element and in list order, and they
\* stay in the cart (nothing is rolled back).
UnknownItemLeavesCartPartiallyFilled ==
    (ipc = "done" /\ iOutcome.kind = "thrown" /\ iOutcome.val.type = "UnknownItem") =>
        /\ FirstUnknown > 0
        /\ Len(clicks) = FirstUnknown - 1
        /\ \A k \in 1 .. Len(clicks) :
              /\ clicks[k].pos = k
              /\ clicks[k].ok
              /\ clicks[k].control = ControlOfName(items[k])
        /\ cart = {ControlOfName(items[k]) : k \in 1 .. FirstUnknown - 1}

\* two recognized names were added before the third, unrecognized one threw
UnknownItemLeavesCartPartiallyFilledWitness ==
    /\ ipc = "done"
    /\ iOutcome.kind = "thrown" /\ iOutcome.val.type = "UnknownItem"
    /\ FirstUnknown = 3
    /\ Len(clicks) = 2
    /\ Cardinality(cart) = 2

----------------------------------------------------------------------------
(* Claims about the spelling of item names *)

\* a list addItemsToCart accepts, of distinct items, with a name whose letter
\* case differs from the display name
CaseVariantList ==
    /\ Len(items) >= 1
    /\ \A i \in 1 .. Len(items) : IsKnownName(items[i])
    /\ \A i, j \in 1 .. Len(items) :
          ToLowerCase(items[i]) = ToLowerCase(items[j]) => i = j
    /\ \E i \in 1 .. Len(items) : items[i] \notin CatalogNames

\* C25: a list that differs from the display names only in letter case is
\* added by addItemsToCart without error, and the same list fails
\* verifyCartItems on the cart screen and verifyOrderItems on the overview
\* screen, which compare the names as exact strings.
CaseVariantAddedButNotVerified ==
    CaseVariantList =>
        /\ (ipc = "done") => (iOutcome.kind = "returned" /\ Len(clicks) = Len(items))
        /\ (vpc = "done") =>
              /\ vOutcome.kind = "thrown"
              /\ vOutcome.val.type = "toContain"
              /\ vOutcome.val.item \notin CatalogNames

\* verifyOrderItems has failed on the overview screen for a list in capitals
\* that addItemsToCart had added
CaseVariantAddedButNotVerifiedWitness ==
    /\ CaseVariantList
    /\ iOutcome.kind = "returned"
    /\ sessUrl = UrlOf("stepTwo")
    /\ expectedItems = items
    /\ vpc = "done" /\ vOutcome.kind = "thrown"

----------------------------------------------------------------------------
(* CheckoutCompletePage.completeOrderAndReturnToInventory *)

\* completeOrderAndReturnToInventory is called on the completion screen, whose
\* elements and texts are in any state
CompleteOrderStart ==
    /\ url = BASE_URL \o PATH_CHECKOUT_COMPLETE
    /\ elements \in [{CompletionElements[i] : i \in 1 .. Len(CompletionElements)}
                        -> ElementStates]
    /\ completeHeader \in HeaderTexts
    /\ completeText \in BodyTexts
    /\ spc = "completeOrder"
    /\ results = NoResults
    /\ backHomeClicked = FALSE
    /\ sOutcome = NoOutcome

\* a method that clicks whatever the verification returned
CompleteOrderProceedsAlways(isComplete) == TRUE

\* if (!isComplete) return false;
CompleteOrderProceeds(isComplete) == isComplete

\* const isComplete = await this.verifyCheckoutCompletion();
\* if (!isComplete) return false;
CompleteOrderVerifies ==
    /\ spc = "completeOrder"
    /\ IF HasText("completeHeader") /\ HasText("completeText")
          THEN LET isComplete == VerifyCheckoutCompletion(completeHeader, completeText)
               IN  /\ results' = [results EXCEPT !.completion = isComplete]
                   /\ IF CompleteOrderProceeds(isComplete)
                         THEN /\ spc' = "completeOrderClick"
                              /\ sOutcome' = sOutcome
                         ELSE /\ spc' = "done"
                              /\ sOutcome' = [kind |-> "returned", val |-> FALSE]
          ELSE /\ spc' = "done"
               /\ sOutcome' = Failed("textContent timeout")
               /\ results' = results
    /\ UNCHANGED <<url, elements, completeHeader, completeText, backHomeClicked,
                   notScenario>>

\* await this.clickBackHomeButton(); return true;
CompleteOrderClicksBackHome ==
    /\ spc = "completeOrderClick"
    /\ IF IsVisible("backHomeButton")
          THEN /\ backHomeClicked' = TRUE
               /\ url' = BASE_URL \o PATH_INVENTORY
               /\ sOutcome' = [kind |-> "returned", val |-> TRUE]
          ELSE /\ sOutcome' = Failed("click timeout")
               /\ UNCHANGED <<backHomeClicked, url>>
    /\ spc' = "done"
    /\ UNCHANGED <<elements, completeHeader, completeText, results, notScenario>>

InitCompleteOrder ==
    /\ CompleteOrderStart
    /\ RetryIdle
    /\ InventoryIdle
    /\ BadgeIdle
    /\ VerifyIdle
    /\ TotalIdle
    /\ LoadIdle
    /\ QueryIdle
    /\ SessionIdle
    /\ RunnerIdle
    /\ RemoveIdle
    /\ CompositeIdle
    /\ BannerIdle

NextCompleteOrder ==
    \/ CompleteOrderVerifies
    \/ CompleteOrderClicksBackHome

SpecCompleteOrder == InitCompleteOrder /\ [][NextCompleteOrder]_vars

\* the header and the body read by verifyCheckoutCompletion say that the order
\* is complete
ShowsCompletion ==
    /\ TrimmedOrEmpty(completeHeader) = ORDER_COMPLETE
    /\ Includes(TrimmedOrEmpty(completeText), ORDER_DISPATCHED)

\* the back-home click has been issued: it went through or it timed out
BackHomeClickIssued ==
    backHomeClicked \/ spc = "completeOrderClick" \/ sOutcome = Failed("click timeout")

\* C26: completeOrderAndReturnToInventory issues the back-home click exactly
\* when verifyCheckoutCompletion returned true and returns that boolean: when
\* the verification fails it returns false, no click is issued and the browser
\* stays on the completion screen; when it returns true the click was made.
CompleteOrderClicksIffVerified ==
    /\ BackHomeClickIssued => ShowsCompletion
    /\ (spc = "done" /\ sOutcome # Failed("textContent timeout")) =>
          (BackHomeClickIssued <=> ShowsCompletion)
    /\ (spc = "done" /\ sOutcome.kind = "returned") =>
          /\ sOutcome.val = ShowsCompletion
          /\ sOutcome.val = results.completion
          /\ sOutcome.val = backHomeClicked
    /\ (spc = "done" /\ sOutcome = [kind |-> "returned", val |-> FALSE]) =>
          /\ ~backHomeClicked
          /\ url = BASE_URL \o PATH_CHECKOUT_COMPLETE
          /\ IsOnCheckoutCompletePage(url)
    /\ (spc = "done" /\ sOutcome = [kind |-> "returned", val |-> TRUE]) =>
          IsOnInventoryPage(url)

\* the verification failed although the back-home control is shown: false is
\* returned and the control was not clicked
CompleteOrderClicksIffVerifiedWitness ==
    /\ spc = "done"
    /\ sOutcome = [kind |-> "returned", val |-> FALSE]
    /\ IsVisible("backHomeButton")
    /\ ~backHomeClicked
    /\ url = BASE_URL \o PATH_CHECKOUT_COMPLETE

----------------------------------------------------------------------------
(* CartPage.removeItemFromCart *)

\* texts the name element of a cart row may carry: a name, a name with white
\* space around it, a name in capitals, or no text (textContent() gives null)
RowTexts ==
    {SAUCE_LABS_BACKPACK, SAUCE_LABS_BOLT_T_SHIRT, PaddedBoltTShirt, UpperBackpack, Null}

\* names a scenario may ask to remove
RemovableNames ==
    {SAUCE_LABS_BACKPACK, SAUCE_LABS_BOLT_T_SHIRT, PaddedBoltTShirt, SAUCE_LABS_BIKE_LIGHT}

\* a comparison of the text as it stands, without trim()
RowMatchesUntrimmed(name, wanted) == name = wanted

\* name?.trim() === itemName
RowMatches(name, wanted) == name # Null /\ Trim(name) = wanted

\* the target: the cart without the row whose remove control was clicked
SiteRemoveRow(rows, k) ==
    [i \in 1 .. Len(rows) - 1 |-> IF i < k THEN rows[i] ELSE rows[i + 1]]

\* const items = await this.cartItems.all();
RemoveStart ==
    /\ cartRows \in SeqsUpTo(RowTexts, MaxCartRows)
    /\ rmItems = cartRows
    /\ itemName \in RemovableNames
    /\ rmIdx = 1
    /\ removeClicks = <<>>
    /\ rmpc = "loop"

\* a row whose name is not the one passed in: the loop goes on
RemoveItemSkipsRow ==
    /\ rmpc = "loop"
    /\ rmIdx <= Len(rmItems)
    /\ ~RowMatches(rmItems[rmIdx], itemName)
    /\ rmIdx' = rmIdx + 1
    /\ UNCHANGED <<cartRows, rmItems, itemName, removeClicks, rmpc, notRemove>>

\* a row with the name passed in: await removeButton.click(); break;
RemoveItemClicksRemove ==
    /\ rmpc = "loop"
    /\ rmIdx <= Len(rmItems)
    /\ RowMatches(rmItems[rmIdx], itemName)
    /\ removeClicks' = Append(removeClicks, rmIdx)
    /\ cartRows' = SiteRemoveRow(cartRows, rmIdx)
    /\ rmpc' = "done"
    /\ UNCHANGED <<rmItems, itemName, rmIdx, notRemove>>

\* the rows are exhausted without a match: the method returns
RemoveItemReturns ==
    /\ rmpc = "loop"
    /\ rmIdx > Len(rmItems)
    /\ rmpc' = "done"
    /\ UNCHANGED <<cartRows, rmItems, itemName, rmIdx, removeClicks, notRemove>>

InitRemove ==
    /\ RemoveStart
    /\ RetryIdle
    /\ InventoryIdle
    /\ BadgeIdle
    /\ VerifyIdle
    /\ TotalIdle
    /\ ScenarioIdle
    /\ LoadIdle
    /\ QueryIdle
    /\ SessionIdle
    /\ RunnerIdle
    /\ CompositeIdle
    /\ BannerIdle

NextRemove ==
    \/ RemoveItemSkipsRow
    \/ RemoveItemClicksRemove
    \/ RemoveItemReturns

SpecRemove == InitRemove /\ [][NextRemove]_vars

\* the rows of the cart, as found at the call, whose trimmed name is the name
\* passed in
RowsNamed ==
    {k \in 1 .. Len(rmItems) : rmItems[k] # Null /\ Trim(rmItems[k]) = itemName}

\* the first of them
FirstRowNamed == CHOOSE k \in RowsNamed : \A j \in RowsNamed : k <= j

\* C21: removeItemFromCart does nothing when no cart row has the (trimmed) name
\* passed in: no remove control is clicked and the cart is as it was; when rows
\* with that name exist, one remove control is clicked, that of the first such
\* row, and all the other rows are unchanged.
RemoveClicksFirstMatchOnly ==
    /\ Len(removeClicks) <= 1
    /\ removeClicks # <<>> => rmpc = "done"
    /\ rmpc = "done" =>
          IF RowsNamed = {}
             THEN /\ removeClicks = <<>>
                  /\ cartRows = rmItems
             ELSE /\ removeClicks = <<FirstRowNamed>>
                  /\ Len(cartRows) = Len(rmItems) - 1
                  /\ \A i \in 1 .. Len(rmItems) :
                        /\ i < FirstRowNamed => cartRows[i] = rmItems[i]
                        /\ i > FirstRowNamed => cartRows[i - 1] = rmItems[i]

\* of a cart with two rows of the name passed in after another row, the first
\* of the two was removed and the second is still there
RemoveClicksFirstMatchOnlyWitness ==
    /\ rmpc = "done"
    /\ Len(rmItems) = 3
    /\ RowsNamed = {2, 3}
    /\ removeClicks = <<2>>
    /\ cartRows = <<rmItems[1], rmItems[3]>>

\* a name that no row carries: the method has returned and the cart of two
\* rows is as it was
RemoveAbsentNameWitness ==
    /\ rmpc = "done" /\ RowsNamed = {} /\ Len(rmItems) = 2 /\ cartRows = rmItems

----------------------------------------------------------------------------
(* Claims about the 'still on login page' check of the login scenarios *)

\* const currentUrl = await loginPage.getCurrentUrl();
\* expect(currentUrl).toContain('/');
StillOnLoginCheck(currentUrl) == Includes(currentUrl, PATHS.login)

\* the screens of the target other than the login screen
ScreensBehindLogin == {"inventory", "cart", "stepOne", "stepTwo", "complete"}

\* C22: the 'still on login page' check (the current URL contains '/') holds
\* only when the browser is on the login screen: it fails for the URL of
\* every other screen of the target.
StillOnLoginCheckOnlyOnLogin ==
    /\ StillOnLoginCheck(sessUrl) => OnLoginScreen
    /\ \A screen \in ScreensBehindLogin :
          sessUrl = UrlOf(screen) => ~StillOnLoginCheck(sessUrl)

----------------------------------------------------------------------------
(* LoginPage.login and CheckoutPage.completeCheckoutInformation, one awaited
   statement at a time *)

\* a composite that clicks before its last fill
CompositeStepsClickEarly(method) ==
    IF method = "login"
       THEN <<"username", "loginButton", "password">>
       ELSE <<"firstName", "lastName", "continueButton", "postalCode">>

\* login: fillUsername, fillPassword, clickLogin;
\* completeCheckoutInformation: fillCheckoutInformation (fillFirstName,
\* fillLastName, fillPostalCode), clickContinueButton
CompositeSteps(method) ==
    IF method = "login"
       THEN <<"username", "password", "loginButton">>
       ELSE <<"firstName", "lastName", "postalCode", "continueButton">>

IsClickStep(step) == step \in {"loginButton", "continueButton"}

\* the statement that runs next
CurrentStep == CompositeSteps(composite)[cIdx]

\* after a statement has completed: the next one, or the return
CompositeAdvance ==
    /\ cIdx' = cIdx + 1
    /\ IF cIdx = Len(CompositeSteps(composite))
          THEN /\ cpc' = "done"
               /\ cOutcome' = [kind |-> "returned", val |-> "undefined"]
          ELSE UNCHANGED <<cpc, cOutcome>>

\* a fill or a click whose element never shows rejects, and so does the method
CompositeThrows ==
    /\ issued' = Append(issued, [step |-> CurrentStep, ok |-> FALSE])
    /\ cpc' = "done"
    /\ cOutcome' = [kind |-> "thrown", val |-> "Timeout"]
    /\ UNCHANGED <<composite, controls, cIdx, sessionVars, notSessionComposite>>

\* the method is called with its arguments, on its screen, whose inputs and
\* button are shown or not
CompositeStart ==
    /\ \/ /\ composite = "login"
          /\ sessUrl = UrlOf("login") /\ trail = <<"login">>
          /\ typed \in [username : Usernames, password : Passwords]
          /\ submitted = NotSubmitted
          /\ infoTyped = [firstName |-> <<>>, lastName |-> <<>>, postalCode |-> <<>>]
       \/ /\ composite = "completeCheckoutInformation"
          /\ sessUrl = UrlOf("stepOne")
          /\ trail = <<"login", "inventory", "cart", "stepOne">>
          /\ typed = STANDARD_USER /\ submitted = STANDARD_USER
          /\ infoTyped \in [firstName : FieldTexts, lastName : FieldTexts,
                            postalCode : FieldTexts]
    /\ errorBanner = <<>>
    /\ loginForm = [username |-> <<>>, password |-> <<>>]
    /\ infoForm = [firstName |-> <<>>, lastName |-> <<>>, postalCode |-> <<>>]
    /\ infoSubmitted = NotSubmitted
    /\ controls \in [{CompositeSteps(composite)[i] :
                         i \in 1 .. Len(CompositeSteps(composite))}
                        -> {"visible", "absent"}]
    /\ cIdx = 1 /\ issued = <<>> /\ cpc = "run" /\ cOutcome = NoOutcome

\* await this.fillUsername(username) and the other fills
CompositeFills ==
    /\ cpc = "run"
    /\ ~IsClickStep(CurrentStep)
    /\ controls[CurrentStep] = "visible"
    /\ loginForm' =
          CASE CurrentStep = "username" -> FillUsername(loginForm, typed.username)
            [] CurrentStep = "password" -> FillPassword(loginForm, typed.password)
            [] OTHER -> loginForm
    /\ infoForm' =
          CASE CurrentStep = "firstName" -> FillFirstName(infoForm, infoTyped.firstName)
            [] CurrentStep = "lastName" -> FillLastName(infoForm, infoTyped.lastName)
            [] CurrentStep = "postalCode" -> FillPostalCode(infoForm, infoTyped.postalCode)
            [] OTHER -> infoForm
    /\ issued' = Append(issued, [step |-> CurrentStep, ok |-> TRUE])
    /\ CompositeAdvance
    /\ UNCHANGED <<composite, controls, sessUrl, typed, submitted, errorBanner,
                   infoTyped, infoSubmitted, trail, notSessionComposite>>

\* a fill whose input never shows
CompositeFillFails ==
    /\ cpc = "run"
    /\ ~IsClickStep(CurrentStep)
    /\ controls[CurrentStep] = "absent"
    /\ CompositeThrows

\* await this.clickLogin() / await this.clickContinueButton()
CompositeClicks ==
    /\ cpc = "run"
    /\ IsClickStep(CurrentStep)
    /\ controls[CurrentStep] = "visible"
    /\ IF CurrentStep = "loginButton"
          THEN /\ submitted' = loginForm
               /\ ClickLoginEffect(loginForm)
               /\ UNCHANGED infoSubmitted
          ELSE /\ infoSubmitted' = infoForm
               /\ ClickContinueEffect(infoForm)
               /\ UNCHANGED submitted
    /\ issued' = Append(issued, [step |-> CurrentStep, ok |-> TRUE])
    /\ CompositeAdvance
    /\ UNCHANGED <<composite, controls, loginForm, typed, infoForm, infoTyped,
                   notSessionComposite>>

\* a click whose button never shows
CompositeClickFails ==
    /\ cpc = "run"
    /\ IsClickStep(CurrentStep)
    /\ controls[CurrentStep] = "absent"
    /\ CompositeThrows

InitComposite ==
    /\ CompositeStart
    /\ RetryIdle
    /\ InventoryIdle
    /\ BadgeIdle
    /\ VerifyIdle
    /\ TotalIdle
    /\ ScenarioIdle
    /\ LoadIdle
    /\ QueryIdle
    /\ RunnerIdle
    /\ RemoveIdle
    /\ BannerIdle

NextComposite ==
    \/ CompositeFills
    \/ CompositeFillFails
    \/ CompositeClicks
    \/ CompositeClickFails

SpecComposite == InitComposite /\ [][NextComposite]_vars

\* the fills of the method that is called, in the order of the claim
FillsInOrder ==
    IF composite = "login"
       THEN <<"username", "password">>
       ELSE <<"firstName", "lastName", "postalCode">>

\* the positions of the log at which a click was issued
ClicksIssued == {k \in 1 .. Len(issued) : IsClickStep(issued[k].step)}

\* what the form held when the submit button of the method was clicked
CompositeSubmitted == IF composite = "login" THEN submitted ELSE infoSubmitted

\* the arguments of the method
CompositeArguments == IF composite = "login" THEN typed ELSE infoTyped

\* C27: a composite action submits only after all its fills: login issues
\* fill username, fill password, then the login click; and
\* completeCheckoutInformation the fills of first name, last name and postal
\* code, then the continue click. The click is never issued before every
\* fill has completed, and when a fill fails the click is not issued at all.
ClickOnlyAfterAllFills ==
    /\ \A k \in 1 .. Len(issued) :
          k <= Len(FillsInOrder) => issued[k].step = FillsInOrder[k]
    /\ \A k \in ClicksIssued :
          /\ k = Len(FillsInOrder) + 1
          /\ \A j \in 1 .. Len(FillsInOrder) :
                issued[j] = [step |-> FillsInOrder[j], ok |-> TRUE]
    /\ (\E k \in 1 .. Len(issued) : ~IsClickStep(issued[k].step) /\ ~issued[k].ok) =>
          /\ ClicksIssued = {}
          /\ cpc = "done" /\ cOutcome.kind = "thrown"
          /\ CompositeSubmitted = NotSubmitted
    /\ CompositeSubmitted # NotSubmitted =>
          /\ ClicksIssued # {}
          /\ CompositeSubmitted = CompositeArguments
    /\ (cpc = "done" /\ cOutcome.kind = "returned") =>
          /\ Len(issued) = Len(FillsInOrder) + 1
          /\ ClicksIssued = {Len(issued)}

\* login has returned after its two fills and the click, in that order
ClickOnlyAfterAllFillsWitness ==
    /\ composite = "login"
    /\ cpc = "done" /\ cOutcome.kind = "returned"
    /\ issued = <<[step |-> "username", ok |-> TRUE],
                  [step |-> "password", ok |-> TRUE],
                  [step |-> "loginButton", ok |-> TRUE]>>
    /\ submitted = typed

\* the fill of the postal code failed although the continue button is shown:
\* completeCheckoutInformation has thrown without a click
FillFailsNoClickWitness ==
    /\ composite = "completeCheckoutInformation"
    /\ cpc = "done" /\ cOutcome.kind = "thrown"
    /\ Len(issued) = 3 /\ ~issued[3].ok
    /\ controls["continueButton"] = "visible"
    /\ infoSubmitted = NotSubmitted

----------------------------------------------------------------------------
(* The queries of the error banner while the target is still rendering it *)

\* waitFor({ timeout: 5000 })
WaitForTimeout == 5000

\* isErrorMessageVisible of LoginPage and CheckoutPage
ErrorVisibilityQueries ==
    {"LoginPage.isErrorMessageVisible", "CheckoutPage.isErrorMessageVisible"}

\* when the target may show the banner: with the click's return, shortly
\* after it, around the end of a wait that began with it, or later
RenderTimes ==
    {0, 100, WaitForTimeout - 100, WaitForTimeout, WaitForTimeout + 100}

\* when the scenario may call the query: as soon as the click has returned,
\* or a little later
CallTimes == {0, 50}

\* a waitFor that gives up at once
WaitForExpiredAtOnce(calledAt, now) == TRUE

\* waitFor({ timeout: 5000 }) rejects once the timeout has run out
WaitForExpired(calledAt, now) == now - calledAt >= WaitForTimeout

\* the click has returned; the banner is shown then or later
BannerStart ==
    /\ bannerQuery \in ErrorVisibilityQueries \cup ErrorMessageQueries
    /\ renderAt \in RenderTimes
    /\ callAt \in CallTimes
    /\ \E st \in {"absent", "hidden"}, t \in QueriedTexts(bannerQuery) \ {<<>>} :
          banner = [state |-> IF renderAt = 0 THEN "visible" ELSE st, text |-> t]
    /\ clock = 0
    /\ epc = "idle"
    /\ eOutcome = NoOutcome

\* the query can complete, or the call is due, at this instant
BannerQueryDue ==
    \/ epc = "idle" /\ clock = callAt
    \/ epc = "called" /\ bannerQuery \in ErrorVisibilityQueries
    \/ /\ epc = "called" /\ bannerQuery \in ErrorMessageQueries
       /\ (WaitForResolves(banner) \/ WaitForExpired(callAt, clock))

\* the instants at which something happens
BannerEvents == {callAt, renderAt, callAt + WaitForTimeout}

\* time passes up to the next instant at which something happens; the target
\* shows the banner when its time has come
BannerTimePasses ==
    /\ epc \in {"idle", "called"}
    /\ ~BannerQueryDue
    /\ \E t \in BannerEvents :
          /\ t > clock
          /\ \A u \in BannerEvents : u > clock => t <= u
          /\ clock' = t
          /\ banner' = IF t >= renderAt THEN [banner EXCEPT !.state = "visible"]
                       ELSE banner
    /\ UNCHANGED <<renderAt, callAt, bannerQuery, epc, eOutcome, notBanner>>

\* the scenario calls the query
BannerQueryCalled ==
    /\ epc = "idle"
    /\ clock = callAt
    /\ epc' = "called"
    /\ UNCHANGED <<banner, renderAt, callAt, clock, bannerQuery, eOutcome, notBanner>>

\* isErrorMessageVisible: return await this.errorMessage.isVisible();
BannerIsVisibleReturns ==
    /\ epc = "called"
    /\ bannerQuery \in ErrorVisibilityQueries
    /\ eOutcome' = [kind |-> "returned", val |-> LocatorIsVisible(banner)]
    /\ epc' = "done"
    /\ UNCHANGED <<banner, renderAt, callAt, clock, bannerQuery, notBanner>>

\* getErrorMessage: the banner is shown within the timeout, its text is read
BannerGetErrorMessageReads ==
    /\ epc = "called"
    /\ bannerQuery \in ErrorMessageQueries
    /\ WaitForResolves(banner)
    /\ eOutcome' = [kind |-> "returned", val |-> banner.text]
    /\ epc' = "done"
    /\ UNCHANGED <<banner, renderAt, callAt, clock, bannerQuery, notBanner>>

\* getErrorMessage: waitFor rejects after 5000 ms, the catch returns null
BannerGetErrorMessageCatches ==
    /\ epc = "called"
    /\ bannerQuery \in ErrorMessageQueries
    /\ WaitForExpired(callAt, clock)
    /\ eOutcome' = OnErrorMessageTimeout
    /\ epc' = "done"
    /\ UNCHANGED <<banner, renderAt, callAt, clock, bannerQuery, notBanner>>

InitBanner ==
    /\ BannerStart
    /\ RetryIdle
    /\ InventoryIdle
    /\ BadgeIdle
    /\ VerifyIdle
    /\ TotalIdle
    /\ ScenarioIdle
    /\ LoadIdle
    /\ QueryIdle
    /\ SessionIdle
    /\ RunnerIdle
    /\ RemoveIdle
    /\ CompositeIdle

NextBanner ==
    \/ BannerTimePasses
    \/ BannerQueryCalled
    \/ BannerIsVisibleReturns
    \/ BannerGetErrorMessageReads
    \/ BannerGetErrorMessageCatches

SpecBanner == InitBanner /\ [][NextBanner]_vars

\* the query is called before the target shows the banner
CalledBeforeBannerShown == callAt < renderAt

\* C23: isErrorMessageVisible does not wait: it reports the banner's
\* visibility at the instant of the call, so when the target shows the banner
\* only after the call it returns false; getErrorMessage called at the same
\* point waits, up to 5000 ms, and returns the banner's text when the banner
\* is shown within that time.
IsVisibleDoesNotWaitGetErrorMessageDoes ==
    /\ (epc = "done" /\ bannerQuery \in ErrorVisibilityQueries) =>
          /\ clock = callAt
          /\ eOutcome = [kind |-> "returned", val |-> ~CalledBeforeBannerShown]
    /\ (epc = "done" /\ bannerQuery \in ErrorMessageQueries) =>
          /\ clock - callAt <= WaitForTimeout
          /\ (CalledBeforeBannerShown /\ renderAt - callAt < WaitForTimeout) =>
                /\ clock = renderAt
                /\ eOutcome = [kind |-> "returned", val |-> banner.text]
          /\ (renderAt - callAt > WaitForTimeout) =>
                /\ clock = callAt + WaitForTimeout
                /\ eOutcome = [kind |-> "returned", val |-> Null]

\* called as soon as the click has returned, with the banner shown 100 ms
\* later, LoginPage.isErrorMessageVisible has returned false
IsVisibleDoesNotWaitGetErrorMessageDoesWitness ==
    /\ epc = "done"
    /\ bannerQuery = "LoginPage.isErrorMessageVisible"
    /\ callAt = 0 /\ renderAt = 100 /\ clock = 0
    /\ eOutcome = [kind |-> "returned", val |-> FALSE]

\* called at the same point, LoginPage.getErrorMessage has waited 100 ms and
\* returned the text of the banner
GetErrorMessageWaitedWitness ==
    /\ epc = "done"
    /\ bannerQuery = "LoginPage.getErrorMessage"
    /\ callAt = 0 /\ renderAt = 100 /\ clock = 100
    /\ eOutcome = [kind |-> "returned", val |-> ERROR_MESSAGES.INVALID_CREDENTIALS]

====
